---- MODULE Spec2Model ----
(***************************************************************************)
(* Verification model of the Shannon pipeline orchestration layer:        *)
(*   - pentestPipelineWorkflow (src/src/temporal/workflows.ts)             *)
(*   - run_claude_prompt_with_retry (src/src/ai/claude-executor.ts)        *)
(*   - ShannonWebSocketServer polling (src/ui/ws_server.ts)                *)
(* Each component has its own specification over a shared variable list.   *)
(***************************************************************************)
EXTENDS Integers, Sequences, FiniteSets, TLC

(***************************************************************************)
(* Workflow: state, inputs                                                 *)
(***************************************************************************)

\* JavaScript null for the string-valued fields of PipelineState
null == "null"

\* number of vuln->queue-check->exploit sub-pipelines launched by the model
NumPipelines == 2

\* the sub-pipelines in the order of the Promise.allSettled array
VulnTypeOrder == <<"injection", "xss", "auth", "ssrf", "authz">>

VulnTypes == {VulnTypeOrder[i] : i \in 1..NumPipelines}

VulnAgent(v) == v \o "-vuln"

ExploitAgent(v) == v \o "-exploit"

\* costUsd: number | null
NoCost == -1

\* metrics an agent activity may return (AgentMetrics of interest to computeSummary)
MetricsInputs == {[costUsd |-> NoCost, numTurns |-> 1], [costUsd |-> 2, numTurns |-> 3]}

VARIABLES
  state,      \* the PipelineState record of pentestPipelineWorkflow
  pc,         \* the await the main coroutine of the workflow is suspended at
  pipe,       \* per sub-pipeline: the await run_vuln_exploit_pipeline is suspended at
  outcome,    \* how the workflow function ended: "none" | "returned" | "thrown"
  thrown,     \* message of the error the workflow function threw to its caller
  caught,     \* message of the error the catch block of the workflow received
  preCatch,   \* <<the PipelineState as it was when the error reached the catch block>>
  wfLog       \* status arguments of the logWorkflowComplete invocations, in order

wfVars == <<state, pc, pipe, outcome, thrown, caught, preCatch, wfLog>>

VARIABLES
  max_retries,     \* options.max_retries
  has_audit,       \* audit_session && agent_name
  val_retryable,   \* what isRetryableError answers for the ValidationExhausted error
  attempt,         \* loop variable of the for loop
  rpc,             \* the await run_claude_prompt_with_retry is suspended at
  last_error,      \* message of last_error
  result,          \* <<result of the current attempt's run_single_attempt>> or <<>>
  events,          \* calls made so far, in order: [ev, attempt, info]
  rtOutcome,       \* "none" | "returned" | "raised"
  rtValue          \* <<result returned>> or <<message of the error raised>>

rtVars == <<max_retries, has_audit, val_retryable, attempt, rpc, last_error, result,
            events, rtOutcome, rtValue>>

VARIABLES
  subscriptions,   \* Map workflowId -> the ClientSubscription objects, in insertion order
  pollIntervals,   \* Map workflowId -> <<timeout handle>>, <<>> when the key is absent
  lastPollErrors,  \* Map workflowId -> <<[message, timestampMs]>>, <<>> when the key is absent
  loops,           \* per workflowId and poll closure: "none" | "query" | "timer"
  connected,       \* the WebSocket connections that are open
  sent,            \* per connection: the messages the last handler sent to it, in order
  now,             \* what Date.now() reads
  lastErrorSent,   \* per workflowId: <<[message, at, suppressed]>>: the last 'error' sent to
                   \* subscribers, and whether a failure after it was not broadcast
  logFile,         \* per workflowId: the bytes of its workflow.log
  streams,         \* the read streams of streamLogs that are open, in creation order
  tailed           \* per subscription object: the offsets of the log bytes sent to its ws

wsVars == <<subscriptions, pollIntervals, lastPollErrors, loops, connected, sent, now,
            lastErrorSent, logFile, streams, tailed>>

VARIABLES
  answers     \* what the getProgress queries of the workflow returned, in order

qVars == <<answers>>

VARIABLES
  mutexPc,        \* per caller: where its with_mutex call is: "idle" | "lock" | "fn" | "done"
  session_id,     \* per caller: the session_id of its call
  session_mutex,  \* SessionMutex: per session id, <<the caller that holds the lock>> or <<>>
  unlocks,        \* per caller: number of times its call invoked unlock()
  settled,        \* per caller: <<how fn() settled>>
  returned,       \* per caller: <<how with_mutex settled to its caller>>
  calls           \* number of with_mutex calls made so far

mxVars == <<mutexPc, session_id, session_mutex, unlocks, settled, returned, calls>>

VARIABLES
  logger,         \* the WorkflowLogger: [initialized, stream (0: null, else the index in writeStreams)]
  writeStreams,   \* the fs.WriteStream objects created, each [buffered, needDrain]
  diskFile,       \* the texts flushed to the log file, in order
  lgCall,         \* per caller: where its initialize()/logEvent() call is
  resolved,       \* the texts whose writeRaw promise has resolved
  lgCalls         \* number of initialize()/logEvent() calls made so far

lgVars == <<logger, writeStreams, diskFile, lgCall, resolved, lgCalls>>

\* the variables each component leaves alone
notWF == <<rtVars, wsVars, qVars, mxVars, lgVars>>

notRT == <<wfVars, wsVars, qVars, mxVars, lgVars>>

notWS == <<wfVars, rtVars, qVars, mxVars, lgVars>>

notQ == <<rtVars, wsVars, mxVars, lgVars>>

notMX == <<wfVars, rtVars, wsVars, qVars, lgVars>>

notLG == <<wfVars, rtVars, wsVars, qVars, mxVars>>


\* message of the error an activity fails with (ActivityFailure of that activity)
ErrOf(activity) == activity \o " failed"

RECURSIVE SumCost(_, _)
SumCost(metrics, names) ==
  IF names = {} THEN 0
  ELSE LET n == CHOOSE x \in names : TRUE
           c == IF metrics[n].costUsd = NoCost THEN 0 ELSE metrics[n].costUsd
       IN c + SumCost(metrics, names \ {n})

RECURSIVE SumTurns(_, _)
SumTurns(metrics, names) ==
  IF names = {} THEN 0
  ELSE LET n == CHOOSE x \in names : TRUE
       IN metrics[n].numTurns + SumTurns(metrics, names \ {n})

\* computeSummary(state); summary is <<>> for null and <<record>> otherwise
\* (totalDurationMs = Date.now() - startTime reads only the clock and is not modelled)
computeSummary(s) ==
  <<[totalCostUsd |-> SumCost(s.agentMetrics, DOMAIN s.agentMetrics),
     totalTurns   |-> SumTurns(s.agentMetrics, DOMAIN s.agentMetrics),
     agentCount   |-> Len(s.completedAgents)]>>

\* mutant of RecordAgent: completedAgents.unshift(name) instead of push(name)
RecordAgentUnshift(s, name, m) ==
  [s EXCEPT !.agentMetrics = [k \in (DOMAIN s.agentMetrics) \cup {name} |->
                                 IF k = name THEN m ELSE s.agentMetrics[k]],
            !.completedAgents = <<name>> \o s.completedAgents]

\* mutant of RecordAgent: the name is pushed when the agent is started and the metrics
\* are stored by a later step, which the model leaves out
RecordAgentNameOnly(s, name, m) ==
  [s EXCEPT !.completedAgents = Append(s.completedAgents, name)]

\* state.agentMetrics[name] = m; state.completedAgents.push(name)
RecordAgent(s, name, m) ==
  [s EXCEPT !.agentMetrics = [k \in (DOMAIN s.agentMetrics) \cup {name} |->
                                 IF k = name THEN m ELSE s.agentMetrics[k]],
            !.completedAgents = Append(s.completedAgents, name)]

WFInit ==
  /\ state = [status |-> "running", currentPhase |-> null, currentAgent |-> null,
              completedAgents |-> <<>>, failedAgent |-> null, error |-> null,
              agentMetrics |-> <<>>, summary |-> <<>>]
  /\ pc = "start"
  /\ pipe = [v \in VulnTypes |-> "idle"]
  /\ outcome = "none"
  /\ thrown = null
  /\ caught = null
  /\ preCatch = <<>>
  /\ wfLog = <<>>

\* mutant of CatchBlock: the summary is not computed on the failure path
CatchBlockNoSummary(s, msg) ==
  [s EXCEPT !.status = "failed", !.failedAgent = s.currentAgent, !.error = msg]

\* the catch block of pentestPipelineWorkflow up to its await of logWorkflowComplete
CatchBlock(s, msg) ==
  LET s1 == [s EXCEPT !.status = "failed", !.failedAgent = s.currentAgent, !.error = msg]
  IN [s1 EXCEPT !.summary = computeSummary(s1)]

\* an awaited activity of the main coroutine rejects inside the try block
Throw(activity) ==
  /\ state' = CatchBlock(state, ErrOf(activity))
  /\ caught' = ErrOf(activity)
  /\ preCatch' = <<state>>
  /\ wfLog' = Append(wfLog, "failed")
  /\ pc' = "catch_logWorkflowComplete"
  /\ UNCHANGED <<pipe, outcome, thrown>>
  /\ UNCHANGED notWF

(***************************************************************************)
(* Ordered phases: pre-recon, recon                                        *)
(***************************************************************************)

\* pentestPipelineWorkflow enters the try block: execute_pre_recon_phase up to its first await
StartPreRecon ==
  /\ pc = "start"
  /\ state' = [state EXCEPT !.currentPhase = "pre-recon", !.currentAgent = "pre-recon"]
  /\ pc' = "prerecon_logStart"
  /\ UNCHANGED <<pipe, outcome, thrown, caught, preCatch, wfLog>>
  /\ UNCHANGED notWF

PreReconLogStartOk ==
  /\ pc = "prerecon_logStart"
  /\ pc' = "prerecon_agent"
  /\ UNCHANGED <<state, pipe, outcome, thrown, caught, preCatch, wfLog>>
  /\ UNCHANGED notWF

PreReconLogStartFail ==
  /\ pc = "prerecon_logStart"
  /\ Throw("logPhaseTransition")

PreReconAgentOk ==
  /\ pc = "prerecon_agent"
  /\ \E m \in MetricsInputs : state' = RecordAgent(state, "pre-recon", m)
  /\ pc' = "prerecon_logComplete"
  /\ UNCHANGED <<pipe, outcome, thrown, caught, preCatch, wfLog>>
  /\ UNCHANGED notWF

PreReconAgentFail ==
  /\ pc = "prerecon_agent"
  /\ Throw("runPreReconAgent")

\* pre-recon's logPhaseTransition('complete') resolves; execute_recon_phase runs to its first await
PreReconLogCompleteOk ==
  /\ pc = "prerecon_logComplete"
  /\ state' = [state EXCEPT !.currentPhase = "recon", !.currentAgent = "recon"]
  /\ pc' = "recon_logStart"
  /\ UNCHANGED <<pipe, outcome, thrown, caught, preCatch, wfLog>>
  /\ UNCHANGED notWF

PreReconLogCompleteFail ==
  /\ pc = "prerecon_logComplete"
  /\ Throw("logPhaseTransition")

ReconLogStartOk ==
  /\ pc = "recon_logStart"
  /\ pc' = "recon_agent"
  /\ UNCHANGED <<state, pipe, outcome, thrown, caught, preCatch, wfLog>>
  /\ UNCHANGED notWF

ReconLogStartFail ==
  /\ pc = "recon_logStart"
  /\ Throw("logPhaseTransition")

ReconAgentOk ==
  /\ pc = "recon_agent"
  /\ \E m \in MetricsInputs : state' = RecordAgent(state, "recon", m)
  /\ pc' = "recon_logComplete"
  /\ UNCHANGED <<pipe, outcome, thrown, caught, preCatch, wfLog>>
  /\ UNCHANGED notWF

ReconAgentFail ==
  /\ pc = "recon_agent"
  /\ Throw("runReconAgent")

\* recon's logPhaseTransition('complete') resolves;
\* execute_vulnerability_exploitation_phase runs to its first await
ReconLogCompleteOk ==
  /\ pc = "recon_logComplete"
  /\ state' = [state EXCEPT !.currentPhase = "vulnerability-exploitation",
                            !.currentAgent = "pipelines"]
  /\ pc' = "vulnexp_logStart"
  /\ UNCHANGED <<pipe, outcome, thrown, caught, preCatch, wfLog>>
  /\ UNCHANGED notWF

ReconLogCompleteFail ==
  /\ pc = "recon_logComplete"
  /\ Throw("logPhaseTransition")

(***************************************************************************)
(* Parallel phase                                                          *)
(***************************************************************************)

\* the five run_vuln_exploit_pipeline calls each run to their await of runVulnAgent
VulnExpLogStartOk ==
  /\ pc = "vulnexp_logStart"
  /\ pipe' = [v \in VulnTypes |-> "vuln"]
  /\ pc' = "allSettled"
  /\ UNCHANGED <<state, outcome, thrown, caught, preCatch, wfLog>>
  /\ UNCHANGED notWF

VulnExpLogStartFail ==
  /\ pc = "vulnexp_logStart"
  /\ Throw("logPhaseTransition")

\* mutant of Settled: Promise.race, the phase resumes when the first sub-pipeline
\* settles
SettledAny(p) == \E v \in VulnTypes : p[v] \in {"fulfilled", "rejected"}

Settled(p) == \A v \in VulnTypes : p[v] \in {"fulfilled", "rejected"}

\* mutant of AfterPipelineStep: Promise.all instead of Promise.allSettled, the first
\* rejection propagates to the catch block of the workflow
AfterPipelineStepFailFast(newPipe, s) ==
  /\ pipe' = newPipe
  /\ IF \E v \in VulnTypes : newPipe[v] = "rejected"
       THEN /\ state' = CatchBlock(s, ErrOf("run_vuln_exploit_pipeline"))
            /\ caught' = ErrOf("run_vuln_exploit_pipeline")
            /\ preCatch' = <<s>>
            /\ wfLog' = Append(wfLog, "failed")
            /\ pc' = "catch_logWorkflowComplete"
       ELSE /\ IF Settled(newPipe)
                 THEN /\ state' = [s EXCEPT !.currentPhase = "exploitation",
                                            !.currentAgent = null]
                      /\ pc' = "vulnexp_logComplete"
                 ELSE /\ state' = s
                      /\ pc' = pc
            /\ UNCHANGED <<caught, preCatch, wfLog>>
  /\ UNCHANGED <<outcome, thrown>>
  /\ UNCHANGED notWF

\* Promise.allSettled: when the last sub-pipeline settles the phase function resumes
\* (sets currentPhase/currentAgent) and suspends at logPhaseTransition('complete')
AfterPipelineStep(newPipe, s) ==
  /\ pipe' = newPipe
  /\ IF Settled(newPipe)
       THEN /\ state' = [s EXCEPT !.currentPhase = "exploitation", !.currentAgent = null]
            /\ pc' = "vulnexp_logComplete"
       ELSE /\ state' = s
            /\ pc' = pc
  /\ UNCHANGED <<outcome, thrown, caught, preCatch, wfLog>>
  /\ UNCHANGED notWF

VulnAgentOk(v) ==
  /\ pc = "allSettled" /\ pipe[v] = "vuln"
  /\ \E m \in MetricsInputs :
       AfterPipelineStep([pipe EXCEPT ![v] = "queue"], RecordAgent(state, VulnAgent(v), m))

VulnAgentFail(v) ==
  /\ pc = "allSettled" /\ pipe[v] = "vuln"
  /\ AfterPipelineStep([pipe EXCEPT ![v] = "rejected"], state)

\* mutant of QueueCheck: the exploit agent is started whatever the decision says
QueueCheckIgnoresDecision(v, shouldExploit) ==
  /\ pc = "allSettled" /\ pipe[v] = "queue"
  /\ AfterPipelineStep([pipe EXCEPT ![v] = "exploit"], state)

\* mutant of QueueCheck: a barrier, no exploit agent starts before every vuln agent
\* has finished
QueueCheckBarrier(v, shouldExploit) ==
  /\ pc = "allSettled" /\ pipe[v] = "queue"
  /\ shouldExploit => \A u \in VulnTypes : pipe[u] # "vuln"
  /\ AfterPipelineStep([pipe EXCEPT ![v] = IF shouldExploit THEN "exploit" ELSE "fulfilled"],
                       state)

\* checkExploitationQueue resolves with decision.shouldExploit; the pipeline either
\* runs to its await of runExploitAgent or returns
QueueCheck(v, shouldExploit) ==
  /\ pc = "allSettled" /\ pipe[v] = "queue"
  /\ AfterPipelineStep([pipe EXCEPT ![v] = IF shouldExploit THEN "exploit" ELSE "fulfilled"],
                       state)

QueueCheckOk(v) ==
  \E shouldExploit \in BOOLEAN : QueueCheck(v, shouldExploit)

QueueCheckFail(v) ==
  /\ pc = "allSettled" /\ pipe[v] = "queue"
  /\ AfterPipelineStep([pipe EXCEPT ![v] = "rejected"], state)

ExploitAgentOk(v) ==
  /\ pc = "allSettled" /\ pipe[v] = "exploit"
  /\ \E m \in MetricsInputs :
       AfterPipelineStep([pipe EXCEPT ![v] = "fulfilled"],
                         RecordAgent(state, ExploitAgent(v), m))

ExploitAgentFail(v) ==
  /\ pc = "allSettled" /\ pipe[v] = "exploit"
  /\ AfterPipelineStep([pipe EXCEPT ![v] = "rejected"], state)

\* logPhaseTransition('vulnerability-exploitation','complete') resolves;
\* execute_reporting_phase runs to its first await
VulnExpLogCompleteOk ==
  /\ pc = "vulnexp_logComplete"
  /\ state' = [state EXCEPT !.currentPhase = "reporting", !.currentAgent = "report"]
  /\ pc' = "report_logStart"
  /\ UNCHANGED <<pipe, outcome, thrown, caught, preCatch, wfLog>>
  /\ UNCHANGED notWF

VulnExpLogCompleteFail ==
  /\ pc = "vulnexp_logComplete"
  /\ Throw("logPhaseTransition")

(***************************************************************************)
(* Reporting phase and workflow end                                        *)
(***************************************************************************)

ReportLogStartOk ==
  /\ pc = "report_logStart"
  /\ pc' = "report_assemble"
  /\ UNCHANGED <<state, pipe, outcome, thrown, caught, preCatch, wfLog>>
  /\ UNCHANGED notWF

ReportLogStartFail ==
  /\ pc = "report_logStart"
  /\ Throw("logPhaseTransition")

AssembleReportOk ==
  /\ pc = "report_assemble"
  /\ pc' = "report_agent"
  /\ UNCHANGED <<state, pipe, outcome, thrown, caught, preCatch, wfLog>>
  /\ UNCHANGED notWF

AssembleReportFail ==
  /\ pc = "report_assemble"
  /\ Throw("assembleReportActivity")

ReportAgentOk ==
  /\ pc = "report_agent"
  /\ \E m \in MetricsInputs : state' = RecordAgent(state, "report", m)
  /\ pc' = "report_inject"
  /\ UNCHANGED <<pipe, outcome, thrown, caught, preCatch, wfLog>>
  /\ UNCHANGED notWF

ReportAgentFail ==
  /\ pc = "report_agent"
  /\ Throw("runReportAgent")

InjectReportMetadataOk ==
  /\ pc = "report_inject"
  /\ pc' = "report_logComplete"
  /\ UNCHANGED <<state, pipe, outcome, thrown, caught, preCatch, wfLog>>
  /\ UNCHANGED notWF

InjectReportMetadataFail ==
  /\ pc = "report_inject"
  /\ Throw("injectReportMetadataActivity")

\* the success tail of the try block up to its await of logWorkflowComplete
CompleteBlock(s) ==
  LET s1 == [s EXCEPT !.status = "completed", !.currentPhase = null, !.currentAgent = null]
  IN [s1 EXCEPT !.summary = computeSummary(s1)]

ReportLogCompleteOk ==
  /\ pc = "report_logComplete"
  /\ state' = CompleteBlock(state)
  /\ wfLog' = Append(wfLog, "completed")
  /\ pc' = "try_logWorkflowComplete"
  /\ UNCHANGED <<pipe, outcome, thrown, caught, preCatch>>
  /\ UNCHANGED notWF

ReportLogCompleteFail ==
  /\ pc = "report_logComplete"
  /\ Throw("logPhaseTransition")

\* logWorkflowComplete(..., 'completed') resolves: return state
WorkflowCompleteLogOk ==
  /\ pc = "try_logWorkflowComplete"
  /\ pc' = "done"
  /\ outcome' = "returned"
  /\ UNCHANGED <<state, pipe, thrown, caught, preCatch, wfLog>>
  /\ UNCHANGED notWF

\* logWorkflowComplete(..., 'completed') rejects inside the try block: the catch runs
WorkflowCompleteLogFail ==
  /\ pc = "try_logWorkflowComplete"
  /\ Throw("logWorkflowComplete")

\* logWorkflowComplete(..., 'failed') resolves: throw error
CatchLogOk ==
  /\ pc = "catch_logWorkflowComplete"
  /\ pc' = "done"
  /\ outcome' = "thrown"
  /\ thrown' = caught
  /\ UNCHANGED <<state, pipe, caught, preCatch, wfLog>>
  /\ UNCHANGED notWF

\* logWorkflowComplete(..., 'failed') rejects inside the catch block: its error propagates
CatchLogFail ==
  /\ pc = "catch_logWorkflowComplete"
  /\ pc' = "done"
  /\ outcome' = "thrown"
  /\ thrown' = ErrOf("logWorkflowComplete")
  /\ UNCHANGED <<state, pipe, caught, preCatch, wfLog>>
  /\ UNCHANGED notWF

NextWF ==
  \/ StartPreRecon
  \/ PreReconLogStartOk \/ PreReconLogStartFail
  \/ PreReconAgentOk \/ PreReconAgentFail
  \/ PreReconLogCompleteOk \/ PreReconLogCompleteFail
  \/ ReconLogStartOk \/ ReconLogStartFail
  \/ ReconAgentOk \/ ReconAgentFail
  \/ ReconLogCompleteOk \/ ReconLogCompleteFail
  \/ VulnExpLogStartOk \/ VulnExpLogStartFail
  \/ \E v \in VulnTypes : VulnAgentOk(v)
  \/ \E v \in VulnTypes : VulnAgentFail(v)
  \/ \E v \in VulnTypes : QueueCheckOk(v)
  \/ \E v \in VulnTypes : QueueCheckFail(v)
  \/ \E v \in VulnTypes : ExploitAgentOk(v)
  \/ \E v \in VulnTypes : ExploitAgentFail(v)
  \/ VulnExpLogCompleteOk \/ VulnExpLogCompleteFail
  \/ ReportLogStartOk \/ ReportLogStartFail
  \/ AssembleReportOk \/ AssembleReportFail
  \/ ReportAgentOk \/ ReportAgentFail
  \/ InjectReportMetadataOk \/ InjectReportMetadataFail
  \/ ReportLogCompleteOk \/ ReportLogCompleteFail
  \/ WorkflowCompleteLogOk \/ WorkflowCompleteLogFail
  \/ CatchLogOk \/ CatchLogFail

(***************************************************************************)
(* Retry-checkpoint executor: run_claude_prompt_with_retry                 *)
(***************************************************************************)

\* largest max_retries option the model passes to run_claude_prompt_with_retry
MaxRetries == 3

\* entries of RETRYABLE_PATTERNS the runner's errors are drawn from
RETRYABLE_PATTERNS == {"rate limit", "timeout"}

\* entries of NON_RETRYABLE_PATTERNS the runner's errors are drawn from
NON_RETRYABLE_PATTERNS == {"invalid api key"}

\* messages of the errors run_single_attempt may raise
RunnerErrors == RETRYABLE_PATTERNS \cup NON_RETRYABLE_PATTERNS

\* the PentestError(..., 'validation', false) thrown when validation fails on the last attempt
ValidationExhausted == "PentestError:validation"

\* last_error before any assignment
undefined == "undefined"

\* isRetryableError(err): the textual classification of src/error-handling.ts
isRetryableError(err) ==
  IF err = ValidationExhausted THEN val_retryable
  ELSE err \notin NON_RETRYABLE_PATTERNS /\ err \in RETRYABLE_PATTERNS

Ev(kind, k, info) == [ev |-> kind, attempt |-> k, info |-> info]

\* audit_session.endAgent(...) when an audit session is active
EndAgent(evs, k, info) == IF has_audit THEN Append(evs, Ev("endAgent", k, info)) ELSE evs

RTInit ==
  /\ max_retries \in 1..MaxRetries
  /\ has_audit \in BOOLEAN
  /\ val_retryable \in BOOLEAN
  /\ attempt = 1
  /\ rpc = "checkpoint"
  /\ last_error = undefined
  /\ result = <<>>
  /\ events = <<>>
  /\ rtOutcome = "none"
  /\ rtValue = <<>>

\* the executor is not running (specifications of the other components)
RTParked ==
  /\ max_retries = 1
  /\ has_audit = FALSE
  /\ val_retryable = FALSE
  /\ attempt = 1
  /\ rpc = "off"
  /\ last_error = undefined
  /\ result = <<>>
  /\ events = <<>>
  /\ rtOutcome = "none"
  /\ rtValue = <<>>

\* mutant of NextIteration: the loop test admits one attempt more than max_retries
NextIterationOffByOne(le) ==
  /\ attempt' = attempt + 1
  /\ last_error' = le
  /\ result' = <<>>
  /\ IF attempt + 1 <= max_retries + 1
       THEN /\ rpc' = "checkpoint"
            /\ UNCHANGED <<rtOutcome, rtValue>>
       ELSE /\ rpc' = "done"
            /\ rtOutcome' = "raised"
            /\ rtValue' = <<le>>

\* attempt++ and the loop test; after the loop: throw last_error
NextIteration(le) ==
  /\ attempt' = attempt + 1
  /\ last_error' = le
  /\ result' = <<>>
  /\ IF attempt + 1 <= max_retries
       THEN /\ rpc' = "checkpoint"
            /\ UNCHANGED <<rtOutcome, rtValue>>
       ELSE /\ rpc' = "done"
            /\ rtOutcome' = "raised"
            /\ rtValue' = <<le>>

\* throw err out of run_claude_prompt_with_retry
Raise(err) ==
  /\ rpc' = "done"
  /\ last_error' = err
  /\ rtOutcome' = "raised"
  /\ rtValue' = <<err>>
  /\ UNCHANGED <<attempt, result>>
  /\ UNCHANGED notRT

\* top of the loop body: createGitCheckpoint, startAgent, then run_single_attempt is awaited
CreateCheckpoint ==
  /\ rpc = "checkpoint"
  /\ events' = LET e1 == Append(events, Ev("checkpoint", attempt, ""))
               IN IF has_audit THEN Append(e1, Ev("startAgent", attempt, "")) ELSE e1
  /\ rpc' = "run"
  /\ UNCHANGED <<max_retries, has_audit, val_retryable, attempt, last_error, result,
                 rtOutcome, rtValue>>
  /\ UNCHANGED notRT

\* mutant of CatchAttempt: the workspace is not rolled back after the final attempt
CatchAttemptNoFinalRollback(err, evs) ==
  LET e1 == EndAgent(evs, attempt, err)
  IN IF ~isRetryableError(err)
       THEN /\ events' = Append(e1, Ev("rollback", attempt, "non-retryable error cleanup"))
            /\ Raise(err)
       ELSE IF attempt < max_retries
         THEN /\ events' = Append(Append(e1, Ev("rollback", attempt, "retryable error cleanup")),
                                  Ev("delay", attempt, err))
              /\ rpc' = "delay"
              /\ last_error' = err
              /\ UNCHANGED <<attempt, result, rtOutcome, rtValue>>
         ELSE /\ events' = e1
              /\ NextIteration(err)

\* mutant of CatchAttempt: the error is not classified, every error is retried
CatchAttemptRetriesAll(err, evs) ==
  LET e1 == EndAgent(evs, attempt, err)
  IN IF attempt < max_retries
       THEN /\ events' = Append(Append(e1, Ev("rollback", attempt, "retryable error cleanup")),
                                Ev("delay", attempt, err))
            /\ rpc' = "delay"
            /\ last_error' = err
            /\ UNCHANGED <<attempt, result, rtOutcome, rtValue>>
       ELSE /\ events' = Append(e1, Ev("rollback", attempt, "final failure cleanup"))
            /\ NextIteration(err)

\* mutant of CatchAttempt: a retry starts right after the rollback, without backoff
CatchAttemptNoDelay(err, evs) ==
  LET e1 == EndAgent(evs, attempt, err)
  IN IF ~isRetryableError(err)
       THEN /\ events' = Append(e1, Ev("rollback", attempt, "non-retryable error cleanup"))
            /\ Raise(err)
       ELSE IF attempt < max_retries
         THEN /\ events' = Append(e1, Ev("rollback", attempt, "retryable error cleanup"))
              /\ NextIteration(err)
         ELSE /\ events' = Append(e1, Ev("rollback", attempt, "final failure cleanup"))
              /\ NextIteration(err)

\* mutant of CatchAttempt: the backoff delay is taken after the final attempt too
CatchAttemptDelaysFinal(err, evs) ==
  LET e1 == EndAgent(evs, attempt, err)
  IN IF ~isRetryableError(err)
       THEN /\ events' = Append(e1, Ev("rollback", attempt, "non-retryable error cleanup"))
            /\ Raise(err)
       ELSE /\ events' = Append(Append(e1, Ev("rollback", attempt,
                                              IF attempt < max_retries
                                                THEN "retryable error cleanup"
                                                ELSE "final failure cleanup")),
                                Ev("delay", attempt, err))
            /\ rpc' = "delay"
            /\ last_error' = err
            /\ UNCHANGED <<attempt, result, rtOutcome, rtValue>>

\* the catch block of the loop body for an error err raised in the try block;
\* evs are the calls made up to the throw
CatchAttempt(err, evs) ==
  LET e1 == EndAgent(evs, attempt, err)
  IN IF ~isRetryableError(err)
       THEN /\ events' = Append(e1, Ev("rollback", attempt, "non-retryable error cleanup"))
            /\ Raise(err)
       ELSE IF attempt < max_retries
         THEN /\ events' = Append(Append(e1, Ev("rollback", attempt, "retryable error cleanup")),
                                  Ev("delay", attempt, err))
              /\ rpc' = "delay"
              /\ last_error' = err
              /\ UNCHANGED <<attempt, result, rtOutcome, rtValue>>
         ELSE /\ events' = Append(e1, Ev("rollback", attempt, "final failure cleanup"))
              /\ NextIteration(err)

\* run_single_attempt rejects with an error
RunnerRaises ==
  /\ rpc = "run"
  /\ \E err \in RunnerErrors : CatchAttempt(err, Append(events, Ev("raise", attempt, err)))
  /\ UNCHANGED <<max_retries, has_audit, val_retryable>>
  /\ UNCHANGED notRT

\* the setTimeout of the backoff delay fires: next iteration
DelayElapsed ==
  /\ rpc = "delay"
  /\ NextIteration(last_error)
  /\ UNCHANGED <<max_retries, has_audit, val_retryable, events>>
  /\ UNCHANGED notRT

\* run_single_attempt resolves with success = true: validate_output is awaited
RunnerSucceeds ==
  /\ rpc = "run"
  /\ \E api \in BOOLEAN :
       /\ result' = <<[success |-> TRUE, attempt |-> attempt, apiErrorDetected |-> api]>>
       /\ events' = Append(events, Ev("success", attempt, ""))
  /\ rpc' = "validate"
  /\ UNCHANGED <<max_retries, has_audit, val_retryable, attempt, last_error,
                 rtOutcome, rtValue>>
  /\ UNCHANGED notRT

\* run_single_attempt resolves with success = false: the try block ends without a
\* throw, the loop goes on
RunnerReturnsFailure ==
  /\ rpc = "run"
  /\ events' = Append(events, Ev("failure", attempt, ""))
  /\ NextIteration(last_error)
  /\ UNCHANGED <<max_retries, has_audit, val_retryable>>
  /\ UNCHANGED notRT

\* mutant of ValidatorPasses: the result is returned without commitGitSuccess
ValidatorPassesNoCommit ==
  /\ rpc = "validate"
  /\ events' = EndAgent(Append(events, Ev("valid", attempt, "")), attempt, "success")
  /\ rpc' = "done"
  /\ rtOutcome' = "returned"
  /\ rtValue' = result
  /\ UNCHANGED <<max_retries, has_audit, val_retryable, attempt, last_error, result>>
  /\ UNCHANGED notRT

\* validate_output resolves true: endAgent, commitGitSuccess, return result
ValidatorPasses ==
  /\ rpc = "validate"
  /\ events' = Append(EndAgent(Append(events, Ev("valid", attempt, "")), attempt, "success"),
                      Ev("commit", attempt, ""))
  /\ rpc' = "done"
  /\ rtOutcome' = "returned"
  /\ rtValue' = result
  /\ UNCHANGED <<max_retries, has_audit, val_retryable, attempt, last_error, result>>
  /\ UNCHANGED notRT

\* mutant of ValidatorFails: a failed validation before the last attempt is retried
\* without rolling the workspace back
ValidatorFailsNoRollback ==
  /\ rpc = "validate"
  /\ LET le == IF result[1].apiErrorDetected
                 THEN "API Error: terminated with validation failure"
                 ELSE "Output validation failed"
         e1 == EndAgent(Append(events, Ev("invalid", attempt, "")), attempt,
                        "Output validation failed")
     IN IF attempt < max_retries
          THEN /\ events' = e1
               /\ NextIteration(le)
          ELSE CatchAttempt(ValidationExhausted, e1)
  /\ UNCHANGED <<max_retries, has_audit, val_retryable>>
  /\ UNCHANGED notRT

\* validate_output resolves false
ValidatorFails ==
  /\ rpc = "validate"
  /\ LET le == IF result[1].apiErrorDetected
                 THEN "API Error: terminated with validation failure"
                 ELSE "Output validation failed"
         e1 == EndAgent(Append(events, Ev("invalid", attempt, "")), attempt,
                        "Output validation failed")
     IN IF attempt < max_retries
          THEN /\ events' = Append(e1, Ev("rollback", attempt, "validation failure"))
               /\ NextIteration(le)
          ELSE CatchAttempt(ValidationExhausted, e1)
  /\ UNCHANGED <<max_retries, has_audit, val_retryable>>
  /\ UNCHANGED notRT

NextRetry ==
  \/ CreateCheckpoint
  \/ RunnerRaises
  \/ DelayElapsed
  \/ RunnerSucceeds
  \/ RunnerReturnsFailure
  \/ ValidatorPasses
  \/ ValidatorFails

(***************************************************************************)
(* Progress bridge: TemporalBridge.getProgress                             *)
(***************************************************************************)

\* PipelineProgress values the workflow's getProgress query resolves with
\* (startTime, elapsedMs and workflowId are not modelled)
RunningEarly ==
  [status |-> "running", currentPhase |-> "pre-recon", currentAgent |-> "pre-recon",
   completedAgents |-> <<>>, failedAgent |-> null, error |-> null, agentMetrics |-> <<>>]

RunningLate ==
  [status |-> "running", currentPhase |-> "recon", currentAgent |-> "recon",
   completedAgents |-> <<"pre-recon">>, failedAgent |-> null, error |-> null,
   agentMetrics |-> [a \in {"pre-recon"} |-> [costUsd |-> 2, numTurns |-> 3]]]

Completed ==
  [status |-> "completed", currentPhase |-> "reporting", currentAgent |-> null,
   completedAgents |-> <<"pre-recon", "recon">>, failedAgent |-> null, error |-> null,
   agentMetrics |-> [a \in {"pre-recon", "recon"} |-> [costUsd |-> 2, numTurns |-> 3]]]

Failed ==
  [status |-> "failed", currentPhase |-> "recon", currentAgent |-> "recon",
   completedAgents |-> <<"pre-recon">>, failedAgent |-> "recon", error |-> "recon failed",
   agentMetrics |-> [a \in {"pre-recon"} |-> [costUsd |-> 2, numTurns |-> 3]]]

QueryProgress == {RunningEarly, RunningLate, Completed, Failed}

\* messages of the errors handle.query rejects with
QueryErrors == {"query timeout", "not found", "FAILED_PRECONDITION",
                "no poller seen for task queue recently"}

\* what awaiting handle.query<PipelineProgress>('getProgress') gives
QueryOutcomes ==
  {[ok |-> TRUE, progress |-> p] : p \in QueryProgress}
    \cup {[ok |-> FALSE, message |-> m] : m \in QueryErrors}

\* description.status?.name of the WorkflowExecutionDescription
DescribeNames == {"RUNNING", "COMPLETED", "FAILED", "TERMINATED", undefined}

\* what awaiting handle.describe() gives
DescribeOutcomes == {[ok |-> TRUE, name |-> n] : n \in DescribeNames} \cup {[ok |-> FALSE]}

\* message of the error connect() rejects with
ConnectError == "connect ECONNREFUSED"

\* String.prototype.toLowerCase on the strings of the model
toLowerCase(s) ==
  CASE s = "RUNNING" -> "running"
    [] s = "COMPLETED" -> "completed"
    [] s = "FAILED" -> "failed"
    [] s = "TERMINATED" -> "terminated"
    [] s = "FAILED_PRECONDITION" -> "failed_precondition"
    [] OTHER -> s

\* to_progress_status(status_name); the names are upper case as Temporal gives them
to_progress_status(status_name) ==
  IF status_name = "RUNNING" THEN "running"
  ELSE IF status_name = "COMPLETED" THEN "completed"
  ELSE "failed"

\* the substrings is_query_unavailable_error looks for
QUERY_UNAVAILABLE == {"failed_precondition", "failed to query workflow",
                      "workflow task in failed state",
                      "no poller seen for task queue recently"}

\* mutant of is_query_unavailable_error: the message is not lower-cased
is_query_unavailable_error_cased(message) ==
  message \in QUERY_UNAVAILABLE

\* is_query_unavailable_error(error); a message of QueryErrors includes one of the
\* substrings exactly when it is one of them
is_query_unavailable_error(message) ==
  toLowerCase(message) \in QUERY_UNAVAILABLE

\* the reconciliation note of line 141
ReconcileNote(name) ==
  "Workflow is " \o (IF name = undefined THEN "not running" ELSE toLowerCase(name))

\* lines 131-148: the query resolved with progress; reconcile it against describe()
Reconcile(progress, d) ==
  IF d.ok /\ to_progress_status(d.name) # "running"
    THEN [progress EXCEPT !.status = to_progress_status(d.name),
                          !.error = IF progress.error # null THEN progress.error
                                      ELSE ReconcileNote(d.name)]
    ELSE progress

\* lines 160-171: the snapshot built from describe() alone
Fallback(d, reason) ==
  [status |-> to_progress_status(d.name), currentPhase |-> null, currentAgent |-> null,
   completedAgents |-> <<>>, failedAgent |-> null,
   error |-> IF to_progress_status(d.name) = "running" THEN null
               ELSE "Workflow query unavailable: " \o reason,
   agentMetrics |-> <<>>]

\* TemporalBridge.getProgress(workflowId) for the outcomes of connect(), handle.query
\* and handle.describe: the snapshot it resolves with or the message it rejects with
getProgress(conn, q, d) ==
  IF ~conn THEN [threw |-> TRUE, message |-> ConnectError]
  ELSE IF q.ok THEN [threw |-> FALSE, progress |-> Reconcile(q.progress, d)]
  ELSE IF is_query_unavailable_error(q.message) /\ d.ok
    THEN [threw |-> FALSE, progress |-> Fallback(d, q.message)]
    ELSE [threw |-> TRUE, message |-> q.message]

(***************************************************************************)
(* Progress bridge: ShannonWebSocketServer                                 *)
(***************************************************************************)

\* workflow ids observers subscribe to
Runs == {"w1", "w2"}

\* WebSocket connections
Clients == {"c1", "c2"}

\* most ClientSubscription objects held for one workflow id
MaxSubs == 2

\* most poll closures alive at once for one workflow id
MaxLoops == 2

\* pollInterval
pollInterval == 5000

\* pollErrorBackoff
pollErrorBackoff == 10000

\* the cooldown of shouldBroadcastPollingError
ErrorCooldownMs == 30000

\* largest value Date.now() takes, in steps of ClockStep
MaxTicks == 3

\* the step of the clock of the model
ClockStep == pollInterval + pollErrorBackoff

\* most bytes the workflow.log of a run grows to
MaxLog == 4

\* most read streams open at once
MaxStreams == 2

\* identities of the ClientSubscription objects of one workflow id
SubIds == 1..(MaxSubs + 1)

\* the messages the server sends
SubscribedMsg(w) == [type |-> "subscribed", workflowId |-> w]

UnsubscribedMsg(w) == [type |-> "unsubscribed", workflowId |-> w]

PhaseChangeMsg(progress) ==
  [type |-> "phase_change", phase |-> progress.currentPhase, agent |-> progress.currentAgent]

ProgressMsg(progress) == [type |-> "progress", data |-> progress]

TerminalMsg(w, progress) ==
  [type |-> IF progress.status = "completed" THEN "complete" ELSE "failed",
   workflowId |-> w, error |-> progress.error]

ErrorMsg(message) == [type |-> "error", message |-> message]

LogMsg(line) == [type |-> "log", line |-> line]

\* nothing sent to anyone
Silent == [c \in Clients |-> <<>>]

WSInit ==
  /\ subscriptions = [w \in Runs |-> <<>>]
  /\ pollIntervals = [w \in Runs |-> <<>>]
  /\ lastPollErrors = [w \in Runs |-> <<>>]
  /\ loops = [w \in Runs |-> [i \in 1..MaxLoops |-> "none"]]
  /\ connected = Clients
  /\ sent = Silent
  /\ now = 0
  /\ lastErrorSent = [w \in Runs |-> <<>>]
  /\ logFile = [w \in Runs |-> <<>>]
  /\ streams = <<>>
  /\ tailed = [w \in Runs |-> [id \in SubIds |-> {}]]

\* the poll closures of w that have a query in flight or a timer pending
LiveLoops(w) == {i \in 1..MaxLoops : loops[w][i] # "none"}

\* stopPolling(workflowId) applied to the maps L (loops), P (pollIntervals),
\* E (lastPollErrors): clearTimeout of the stored handle, delete both keys
stopPolling(w, L, P, E) ==
  [loops |-> IF P[w] # <<>> /\ P[w][1].live
               THEN [L EXCEPT ![w][P[w][1].loop] = "none"]
               ELSE L,
   pollIntervals |-> [P EXCEPT ![w] = <<>>],
   lastPollErrors |-> [E EXCEPT ![w] = <<>>]]

\* startPolling(workflowId): a new poll closure whose first poll() runs up to its
\* await of temporal.getProgress; pollIntervals is not touched
startPolling(w, L, P) ==
  LET i == CHOOSE j \in 1..MaxLoops : L[w][j] = "none" /\ \A k \in 1..(j - 1) : L[w][k] # "none"
  IN [loops |-> [L EXCEPT ![w][i] = "query"],
      pollIntervals |-> P]

\* the identities in use for w: objects in the Set or referenced by a read stream
UsedIds(w) ==
  {subscriptions[w][k].id : k \in 1..Len(subscriptions[w])}
    \cup {streams[k].sub : k \in {j \in 1..Len(streams) : streams[j].run = w}}

\* lines 83-93: the Set of w with a new ClientSubscription of connection c added;
\* lastProgress holds <<currentPhase of the last progress broadcast>>
NewSubscription(c, w) ==
  LET id == CHOOSE x \in SubIds \ UsedIds(w) : \A y \in SubIds \ UsedIds(w) : x <= y
  IN Append(subscriptions[w], [id |-> id, ws |-> c, lastProgress |-> <<>>,
                               logPosition |-> 0])

\* handleMessage({type: 'subscribe', workflowId}) from connection c
Subscribe(c, w) ==
  /\ c \in connected
  /\ Len(subscriptions[w]) < MaxSubs
  /\ SubIds \ UsedIds(w) # {}
  /\ pollIntervals[w] = <<>> => LiveLoops(w) # 1..MaxLoops
  /\ subscriptions' = [subscriptions EXCEPT ![w] = NewSubscription(c, w)]
  /\ tailed' = [tailed EXCEPT ![w] = [id \in SubIds |->
                   IF id \in UsedIds(w) THEN tailed[w][id] ELSE {}]]
  /\ IF pollIntervals[w] = <<>>
       THEN LET r == startPolling(w, loops, pollIntervals)
            IN /\ loops' = r.loops
               /\ pollIntervals' = r.pollIntervals
       ELSE UNCHANGED <<loops, pollIntervals>>
  /\ sent' = [Silent EXCEPT ![c] = <<SubscribedMsg(w)>>]
  /\ UNCHANGED <<lastPollErrors, connected, now, lastErrorSent, logFile, streams>>
  /\ UNCHANGED notWS

\* the sequence without its first element whose ws is c
RemoveFirst(subs, c) ==
  IF \E i \in 1..Len(subs) : subs[i].ws = c
    THEN LET i == CHOOSE j \in 1..Len(subs) :
                    subs[j].ws = c /\ \A k \in 1..(j - 1) : subs[k].ws # c
         IN SubSeq(subs, 1, i - 1) \o SubSeq(subs, i + 1, Len(subs))
    ELSE subs

\* handleMessage({type: 'unsubscribe', workflowId}) from connection c
Unsubscribe(c, w) ==
  /\ c \in connected
  /\ LET subs == RemoveFirst(subscriptions[w], c)
     IN IF subscriptions[w] # <<>>
          THEN /\ subscriptions' = [subscriptions EXCEPT ![w] = subs]
               /\ IF subs = <<>>
                    THEN LET r == stopPolling(w, loops, pollIntervals, lastPollErrors)
                         IN /\ loops' = r.loops
                            /\ pollIntervals' = r.pollIntervals
                            /\ lastPollErrors' = r.lastPollErrors
                    ELSE UNCHANGED <<loops, pollIntervals, lastPollErrors>>
          ELSE UNCHANGED <<subscriptions, loops, pollIntervals, lastPollErrors>>
  /\ sent' = [Silent EXCEPT ![c] = <<UnsubscribedMsg(w)>>]
  /\ UNCHANGED <<connected, now, lastErrorSent, logFile, streams, tailed>>
  /\ UNCHANGED notWS

\* removeClient(ws) for the runs of the set todo, applied to the maps S, L, P, E
RECURSIVE removeClient(_, _, _, _, _, _)
removeClient(c, todo, S, L, P, E) ==
  IF todo = {} THEN [subscriptions |-> S, loops |-> L, pollIntervals |-> P,
                     lastPollErrors |-> E]
  ELSE LET w == CHOOSE x \in todo : TRUE
           subs == SelectSeq(S[w], LAMBDA sub : sub.ws # c)
           r == stopPolling(w, L, P, E)
       IN IF S[w] = <<>> THEN removeClient(c, todo \ {w}, S, L, P, E)
          ELSE IF subs = <<>>
            THEN removeClient(c, todo \ {w}, [S EXCEPT ![w] = subs], r.loops,
                              r.pollIntervals, r.lastPollErrors)
            ELSE removeClient(c, todo \ {w}, [S EXCEPT ![w] = subs], L, P, E)

\* ws.on('close'): connection c disconnects
Disconnect(c) ==
  /\ c \in connected
  /\ connected' = connected \ {c}
  /\ LET r == removeClient(c, Runs, subscriptions, loops, pollIntervals, lastPollErrors)
     IN /\ subscriptions' = r.subscriptions
        /\ loops' = r.loops
        /\ pollIntervals' = r.pollIntervals
        /\ lastPollErrors' = r.lastPollErrors
  /\ sent' = Silent
  /\ UNCHANGED <<now, lastErrorSent, logFile, streams, tailed>>
  /\ UNCHANGED notWS

\* the end of poll() of closure i: schedule the next poll unless the run has no
\* subscription left; L, P, E are the maps as the body of poll() left them
Reschedule(w, i, L, P, E) ==
  IF subscriptions[w] = <<>>
    THEN LET r == stopPolling(w, [L EXCEPT ![w][i] = "none"], P, E)
         IN /\ loops' = r.loops
            /\ pollIntervals' = r.pollIntervals
            /\ lastPollErrors' = r.lastPollErrors
    ELSE /\ loops' = [L EXCEPT ![w][i] = "timer"]
         /\ pollIntervals' = [P EXCEPT ![w] = <<[loop |-> i, live |-> TRUE]>>]
         /\ lastPollErrors' = E

\* mutant of broadcastProgress: a subscription without a cached progress is sent a
\* 'phase_change' too
RECURSIVE broadcastProgressNoCacheTest(_, _, _)
broadcastProgressNoCacheTest(subs, c, progress) ==
  IF subs = <<>> THEN <<>>
  ELSE LET sub == Head(subs)
           change == IF sub.lastProgress = <<>> \/ sub.lastProgress[1] # progress.currentPhase
                       THEN <<PhaseChangeMsg(progress)>> ELSE <<>>
       IN (IF sub.ws = c THEN change \o <<ProgressMsg(progress)>> ELSE <<>>)
            \o broadcastProgressNoCacheTest(Tail(subs), c, progress)

\* broadcastProgress(workflowId, progress): what it sends to connection c, in order
RECURSIVE broadcastProgress(_, _, _)
broadcastProgress(subs, c, progress) ==
  IF subs = <<>> THEN <<>>
  ELSE LET sub == Head(subs)
           change == IF sub.lastProgress # <<>> /\ sub.lastProgress[1] # progress.currentPhase
                       THEN <<PhaseChangeMsg(progress)>> ELSE <<>>
       IN (IF sub.ws = c THEN change \o <<ProgressMsg(progress)>> ELSE <<>>)
            \o broadcastProgress(Tail(subs), c, progress)

\* broadcastProgress(workflowId, progress): sub.lastProgress = progress for every sub
Delivered(subs, progress) ==
  [k \in 1..Len(subs) |-> [subs[k] EXCEPT !.lastProgress = <<progress.currentPhase>>]]

\* broadcast(workflowId, message): what it sends to connection c
broadcast(subs, c, message) ==
  [k \in 1..Len(SelectSeq(subs, LAMBDA sub : sub.ws = c)) |-> message]

\* streamLogs(workflowId): the read streams it opens, one per subscription whose
\* logPosition is below stats.size; a stream holds the subscription object (sub, ws),
\* the offset of the next byte it reads (pos), stats.size and its line buffer
streamLogs(w) ==
  LET behind == SelectSeq(subscriptions[w],
                          LAMBDA sub : sub.logPosition < Len(logFile[w]))
  IN [k \in 1..Len(behind) |->
        [run |-> w, sub |-> behind[k].id, ws |-> behind[k].ws,
         pos |-> behind[k].logPosition, size |-> Len(logFile[w]), buffer |-> <<>>]]

\* temporal.getProgress of closure i resolves, connect(), handle.query and
\* handle.describe having given TRUE, q and d: broadcastProgress, streamLogs, then stop
\* and broadcast on a terminal status, else schedule the next poll; the await of
\* streamLogs is taken to resolve before another handler runs
PollQueryOk(w, i, q, d) ==
  /\ loops[w][i] = "query"
  /\ ~getProgress(TRUE, q, d).threw
  /\ Len(streams) + Len(streamLogs(w)) <= MaxStreams
  /\ LET progress == getProgress(TRUE, q, d).progress
     IN /\ subscriptions' = [subscriptions EXCEPT ![w] = Delivered(@, progress)]
        /\ streams' = streams \o streamLogs(w)
        /\ IF progress.status \in {"completed", "failed"}
             THEN LET r == stopPolling(w, [loops EXCEPT ![w][i] = "none"], pollIntervals,
                                       lastPollErrors)
                  IN /\ loops' = r.loops
                     /\ pollIntervals' = r.pollIntervals
                     /\ lastPollErrors' = r.lastPollErrors
                     /\ sent' = [c \in Clients |->
                                   broadcastProgress(subscriptions[w], c, progress)
                                     \o broadcast(subscriptions[w], c, TerminalMsg(w, progress))]
             ELSE /\ Reschedule(w, i, loops, pollIntervals, lastPollErrors)
                  /\ sent' = [c \in Clients |->
                                broadcastProgress(subscriptions[w], c, progress)]
  /\ UNCHANGED <<connected, now, lastErrorSent, logFile, tailed>>
  /\ UNCHANGED notWS

\* mutant of shouldBroadcastPollingError: every failure refreshes the cached entry
shouldBroadcastPollingErrorRefresh(w, msg, E) ==
  IF E[w] = <<>> \/ E[w][1].message # msg \/ now - E[w][1].timestampMs > ErrorCooldownMs
    THEN [broadcast |-> TRUE,
          lastPollErrors |-> [E EXCEPT ![w] = <<[message |-> msg, timestampMs |-> now]>>]]
    ELSE [broadcast |-> FALSE,
          lastPollErrors |-> [E EXCEPT ![w] = <<[message |-> msg, timestampMs |-> now]>>]]

\* shouldBroadcastPollingError(errorMessage) applied to the map E, Date.now() being now
shouldBroadcastPollingError(w, msg, E) ==
  IF E[w] = <<>> \/ E[w][1].message # msg \/ now - E[w][1].timestampMs > ErrorCooldownMs
    THEN [broadcast |-> TRUE,
          lastPollErrors |-> [E EXCEPT ![w] = <<[message |-> msg, timestampMs |-> now]>>]]
    ELSE [broadcast |-> FALSE, lastPollErrors |-> E]

\* the errorMessage of the catch block of poll()
PollErrorMessage(message) == "Failed to query workflow: " \o message

\* mutant of PollQueryFail: the catch block returns, the error ends the loop
PollQueryFailStops(w, i, conn, q, d) ==
  /\ loops[w][i] = "query"
  /\ getProgress(conn, q, d).threw
  /\ LET errorMessage == PollErrorMessage(getProgress(conn, q, d).message)
         r == shouldBroadcastPollingError(w, errorMessage, lastPollErrors)
     IN /\ loops' = [loops EXCEPT ![w][i] = "none"]
        /\ pollIntervals' = pollIntervals
        /\ lastPollErrors' = r.lastPollErrors
        /\ sent' = IF r.broadcast
                     THEN [c \in Clients |->
                             broadcast(subscriptions[w], c, ErrorMsg(errorMessage))]
                     ELSE Silent
        /\ lastErrorSent' =
             IF subscriptions[w] = <<>> THEN lastErrorSent
             ELSE IF r.broadcast
               THEN [lastErrorSent EXCEPT ![w] = <<[message |-> errorMessage, at |-> now,
                                                    suppressed |-> FALSE]>>]
               ELSE [lastErrorSent EXCEPT ![w][1].suppressed = TRUE]
  /\ UNCHANGED <<subscriptions, connected, now, logFile, streams, tailed>>
  /\ UNCHANGED notWS

\* temporal.getProgress of closure i rejects: the catch block, then schedule the next poll
PollQueryFail(w, i, conn, q, d) ==
  /\ loops[w][i] = "query"
  /\ getProgress(conn, q, d).threw
  /\ LET errorMessage == PollErrorMessage(getProgress(conn, q, d).message)
         r == shouldBroadcastPollingError(w, errorMessage, lastPollErrors)
     IN /\ Reschedule(w, i, loops, pollIntervals, r.lastPollErrors)
        /\ sent' = IF r.broadcast
                     THEN [c \in Clients |->
                             broadcast(subscriptions[w], c, ErrorMsg(errorMessage))]
                     ELSE Silent
        /\ lastErrorSent' =
             IF subscriptions[w] = <<>> THEN lastErrorSent
             ELSE IF r.broadcast
               THEN [lastErrorSent EXCEPT ![w] = <<[message |-> errorMessage, at |-> now,
                                                    suppressed |-> FALSE]>>]
               ELSE [lastErrorSent EXCEPT ![w][1].suppressed = TRUE]
  /\ UNCHANGED <<subscriptions, connected, now, logFile, streams, tailed>>
  /\ UNCHANGED notWS

\* the timeout set by closure i fires: poll() runs up to its await of temporal.getProgress
TimerFires(w, i) ==
  /\ loops[w][i] = "timer"
  /\ loops' = [loops EXCEPT ![w][i] = "query"]
  /\ pollIntervals' = IF pollIntervals[w] # <<>> /\ pollIntervals[w][1].loop = i
                        THEN [pollIntervals EXCEPT ![w] = <<[loop |-> i, live |-> FALSE]>>]
                        ELSE pollIntervals
  /\ sent' = Silent
  /\ UNCHANGED <<subscriptions, lastPollErrors, connected, now, lastErrorSent, logFile,
                 streams, tailed>>
  /\ UNCHANGED notWS

\* the clock Date.now() reads moves on
Tick ==
  /\ now < MaxTicks * ClockStep
  /\ now' = now + ClockStep
  /\ sent' = Silent
  /\ UNCHANGED <<subscriptions, pollIntervals, lastPollErrors, loops, connected,
                 lastErrorSent, logFile, streams, tailed>>
  /\ UNCHANGED notWS

(***************************************************************************)
(* Log tailing: the read streams opened by streamLogs                      *)
(***************************************************************************)

\* what the writer appends to workflow.log between two looks of a reader: it writes
\* the lines "a\n", and a reader may look when only the text of a line is in the file
LogWrites == {<<"a", "\n">>, <<"a">>, <<"\n">>}

\* the file holds the writer's lines, the last one possibly without its newline yet
WriterText(file) == \A j \in 1..Len(file) : file[j] = (IF j % 2 = 1 THEN "a" ELSE "\n")

\* the 'data' handler of a read stream: buffer += chunk, split on '\n', keep the last
\* piece as the new buffer; a line and the buffer are sequences of byte offsets, todo
\* are the offsets of the chunk
RECURSIVE SplitLines(_, _, _, _)
SplitLines(file, buffer, lines, todo) ==
  IF todo = <<>> THEN [buffer |-> buffer, lines |-> lines]
  ELSE IF file[Head(todo)] = "\n"
    THEN SplitLines(file, <<>>, IF buffer = <<>> THEN lines ELSE Append(lines, buffer),
                    Tail(todo))
    ELSE SplitLines(file, Append(buffer, Head(todo)), lines, Tail(todo))

\* the offsets of the bytes of the lines
RECURSIVE OffsetsOf(_)
OffsetsOf(lines) ==
  IF lines = <<>> THEN {} ELSE {Head(lines)[k] : k \in 1..Len(Head(lines))}
                                 \cup OffsetsOf(Tail(lines))

\* the sequence without its k-th element
RemoveAt(seq, k) == SubSeq(seq, 1, k - 1) \o SubSeq(seq, k + 1, Len(seq))

\* a writer appends to the workflow.log of w
AppendLog(w, bytes) ==
  /\ Len(logFile[w]) + Len(bytes) <= MaxLog
  /\ WriterText(logFile[w] \o bytes)
  /\ logFile' = [logFile EXCEPT ![w] = @ \o bytes]
  /\ sent' = Silent
  /\ UNCHANGED <<subscriptions, pollIntervals, lastPollErrors, loops, connected, now,
                 lastErrorSent, streams, tailed>>
  /\ UNCHANGED notWS

\* the lines the next 'data' event of the open stream s gives and the buffer it leaves:
\* the stream has no end option, so its chunk runs from its read offset to the end the
\* file has now
NextChunk(s) ==
  SplitLines(logFile[s.run], s.buffer, <<>>,
             [j \in 1..(Len(logFile[s.run]) - s.pos) |-> s.pos + j])

\* stream.on('data') of the k-th open stream: every non-blank line is sent
StreamData(k) ==
  /\ k \in 1..Len(streams)
  /\ streams[k].pos < Len(logFile[streams[k].run])
  /\ LET s == streams[k]
         file == logFile[s.run]
         delivered == IF s.ws \in connected THEN NextChunk(s).lines ELSE <<>>
     IN /\ streams' = [streams EXCEPT ![k].pos = Len(file),
                                       ![k].buffer = NextChunk(s).buffer]
        /\ sent' = [Silent EXCEPT ![s.ws] =
                      [j \in 1..Len(delivered) |->
                         LogMsg([i \in 1..Len(delivered[j]) |-> file[delivered[j][i]]])]]
        /\ tailed' = [tailed EXCEPT ![s.run][s.sub] = @ \cup OffsetsOf(delivered)]
  /\ UNCHANGED <<subscriptions, pollIntervals, lastPollErrors, loops, connected, now,
                 lastErrorSent, logFile>>
  /\ UNCHANGED notWS

\* stream.on('end') of the k-th open stream: sub.logPosition = stats.size
StreamEnd(k) ==
  /\ k \in 1..Len(streams)
  /\ streams[k].pos >= Len(logFile[streams[k].run])
  /\ LET s == streams[k]
     IN /\ subscriptions' = [subscriptions EXCEPT ![s.run] =
             [j \in 1..Len(@) |-> IF @[j].id = s.sub
                                    THEN [@[j] EXCEPT !.logPosition = s.size]
                                    ELSE @[j]]]
  /\ streams' = RemoveAt(streams, k)
  /\ sent' = Silent
  /\ UNCHANGED <<pollIntervals, lastPollErrors, loops, connected, now, lastErrorSent,
                 logFile, tailed>>
  /\ UNCHANGED notWS

(***************************************************************************)
(* Next-state relations of the bridge                                      *)
(***************************************************************************)

\* the workflow id the observers of the specifications below name
Watched == {"w1"}

\* the poll outcomes of a worker that answers queries: a running run, a run that
\* completed, a run terminated while its query still says running, a query that
\* times out
AnsweringPolls ==
  {<<TRUE, [ok |-> TRUE, progress |-> RunningEarly], [ok |-> TRUE, name |-> "RUNNING"]>>,
   <<TRUE, [ok |-> TRUE, progress |-> Completed], [ok |-> TRUE, name |-> "COMPLETED"]>>,
   <<TRUE, [ok |-> TRUE, progress |-> RunningEarly], [ok |-> TRUE, name |-> "TERMINATED"]>>,
   <<TRUE, [ok |-> FALSE, message |-> "query timeout"], [ok |-> FALSE]>>}

\* subscriptions, polls and timers of every connection
NextWS ==
  \/ \E c \in Clients, w \in Watched : Subscribe(c, w)
  \/ \E c \in Clients, w \in Watched : Unsubscribe(c, w)
  \/ \E c \in Clients : Disconnect(c)
  \/ \E w \in Watched, i \in 1..MaxLoops, p \in AnsweringPolls :
       PollQueryOk(w, i, p[2], p[3])
  \/ \E w \in Watched, i \in 1..MaxLoops, p \in AnsweringPolls :
       PollQueryFail(w, i, p[1], p[2], p[3])
  \/ \E w \in Watched, i \in 1..MaxLoops : TimerFires(w, i)

\* one connection that subscribes when no poll of an earlier subscription is left,
\* and every outcome of connect(), handle.query and handle.describe
NextBridge ==
  \/ \E w \in Watched : subscriptions[w] = <<>> /\ LiveLoops(w) = {} /\ Subscribe("c1", w)
  \/ \E w \in Watched : Unsubscribe("c1", w)
  \/ Disconnect("c1")
  \/ \E w \in Watched, i \in 1..MaxLoops, q \in QueryOutcomes, d \in DescribeOutcomes :
       PollQueryOk(w, i, q, d)
  \/ \E w \in Watched, i \in 1..MaxLoops, q \in QueryOutcomes, d \in DescribeOutcomes :
       PollQueryFail(w, i, TRUE, q, d)
  \/ \E w \in Watched, i \in 1..MaxLoops :
       PollQueryFail(w, i, FALSE, [ok |-> FALSE, message |-> "not found"], [ok |-> FALSE])
  \/ \E w \in Watched, i \in 1..MaxLoops : TimerFires(w, i)

\* the poll outcomes of a worker that is in trouble: a running run, two query errors
FailingPolls ==
  {<<TRUE, [ok |-> TRUE, progress |-> RunningEarly], [ok |-> TRUE, name |-> "RUNNING"]>>,
   <<TRUE, [ok |-> FALSE, message |-> "query timeout"], [ok |-> FALSE]>>,
   <<TRUE, [ok |-> FALSE, message |-> "not found"], [ok |-> FALSE]>>}

\* one connection with one subscription at a time, failing polls and the clock
NextClock ==
  \/ \E w \in Watched : subscriptions[w] = <<>> /\ Subscribe("c1", w)
  \/ \E w \in Watched : Unsubscribe("c1", w)
  \/ \E w \in Watched, i \in 1..MaxLoops, p \in FailingPolls :
       PollQueryOk(w, i, p[2], p[3])
  \/ \E w \in Watched, i \in 1..MaxLoops, p \in FailingPolls :
       PollQueryFail(w, i, p[1], p[2], p[3])
  \/ \E w \in Watched, i \in 1..MaxLoops : TimerFires(w, i)
  \/ Tick

\* one connection tailing the log of a running run while a writer appends to it
\* outcomes of connect(), handle.query and handle.describe of a run that changes
\* phase and completes
BroadcastPolls ==
  {<<TRUE, [ok |-> TRUE, progress |-> RunningEarly], [ok |-> TRUE, name |-> "RUNNING"]>>,
   <<TRUE, [ok |-> TRUE, progress |-> RunningLate], [ok |-> TRUE, name |-> "RUNNING"]>>,
   <<TRUE, [ok |-> TRUE, progress |-> Completed], [ok |-> TRUE, name |-> "COMPLETED"]>>}

\* every connection subscribing and unsubscribing, any number of times, while one
\* poll loop follows the run through its phases
NextBroadcast ==
  \/ \E c \in Clients, w \in Watched :
       (pollIntervals[w] = <<>> => LiveLoops(w) = {}) /\ Subscribe(c, w)
  \/ \E c \in Clients, w \in Watched : Unsubscribe(c, w)
  \/ \E w \in Watched, i \in 1..MaxLoops, p \in BroadcastPolls :
       PollQueryOk(w, i, p[2], p[3])
  \/ \E w \in Watched, i \in 1..MaxLoops : TimerFires(w, i)

NextTail ==
  \/ \E w \in Watched : subscriptions[w] = <<>> /\ LiveLoops(w) = {} /\ Subscribe("c1", w)
  \/ \E w \in Watched : Unsubscribe("c1", w)
  \/ \E w \in Watched, i \in 1..MaxLoops :
       PollQueryOk(w, i, [ok |-> TRUE, progress |-> RunningEarly],
                   [ok |-> TRUE, name |-> "RUNNING"])
  \/ \E w \in Watched, i \in 1..MaxLoops : TimerFires(w, i)
  \/ \E w \in Watched, bytes \in LogWrites : AppendLog(w, bytes)
  \/ \E k \in 1..MaxStreams : StreamData(k)
  \/ \E k \in 1..MaxStreams : StreamEnd(k)

\* the bridge is not running (specifications of the other components)
WSParked ==
  /\ subscriptions = [w \in Runs |-> <<>>]
  /\ pollIntervals = [w \in Runs |-> <<>>]
  /\ lastPollErrors = [w \in Runs |-> <<>>]
  /\ loops = [w \in Runs |-> [i \in 1..MaxLoops |-> "none"]]
  /\ connected = {}
  /\ sent = Silent
  /\ now = 0
  /\ lastErrorSent = [w \in Runs |-> <<>>]
  /\ logFile = [w \in Runs |-> <<>>]
  /\ streams = <<>>
  /\ tailed = [w \in Runs |-> [id \in SubIds |-> {}]]

(***************************************************************************)
(* The getProgress query of pentestPipelineWorkflow                        *)
(***************************************************************************)

\* most getProgress queries answered in one behaviour
MaxQueries == 2

\* workflowInfo().workflowId
workflowId == "w1"

\* the workflow task that left the main coroutine at the await p, counted from the
\* first; the function runs from its start to the first await in one task
TaskOf(p) ==
  CASE p \in {"start", "prerecon_logStart"} -> 1
    [] p = "prerecon_agent" -> 2
    [] p = "prerecon_logComplete" -> 3
    [] p = "recon_logStart" -> 4
    [] p = "recon_agent" -> 5
    [] p = "recon_logComplete" -> 6
    [] p = "vulnexp_logStart" -> 7
    [] p = "catch_logWorkflowComplete" -> 8
    [] OTHER -> 9

\* Date.now() inside the workflow: the timestamp of the workflow task that ran last;
\* a later task has a later timestamp, a query does not move it
Date_now == TaskOf(pc)

\* state.startTime: Date.now() of the first workflow task
startTime == TaskOf("start")

\* the fields of PipelineState that hold an array or an object
ReferenceFields == {"completedAgents", "agentMetrics"}

\* mutant of getProgressHandler: startTime is read from the clock again
getProgressHandlerRestamped(s, t) ==
  [value |-> [status |-> s.status, currentPhase |-> s.currentPhase,
              currentAgent |-> s.currentAgent, completedAgents |-> s.completedAgents,
              failedAgent |-> s.failedAgent, error |-> s.error, startTime |-> t,
              agentMetrics |-> s.agentMetrics, summary |-> s.summary,
              workflowId |-> workflowId, elapsedMs |-> t - startTime],
   shared |-> ReferenceFields]

\* the handler of getProgress: ({...state, workflowId, elapsedMs: Date.now() -
\* state.startTime}), t being Date.now(); the spread copies the fields of state, so
\* the fields of shared still refer to the array and the object state refers to
getProgressHandler(s, t) ==
  [value |-> [status |-> s.status, currentPhase |-> s.currentPhase,
              currentAgent |-> s.currentAgent, completedAgents |-> s.completedAgents,
              failedAgent |-> s.failedAgent, error |-> s.error, startTime |-> startTime,
              agentMetrics |-> s.agentMetrics, summary |-> s.summary,
              workflowId |-> workflowId, elapsedMs |-> t - startTime],
   shared |-> ReferenceFields]

\* what a reader of the object obj sees when the PipelineState is s: a field of
\* obj.shared is read through its reference
Read(obj, s) ==
  [obj.value EXCEPT
     !.completedAgents = IF "completedAgents" \in obj.shared THEN s.completedAgents ELSE @,
     !.agentMetrics = IF "agentMetrics" \in obj.shared THEN s.agentMetrics ELSE @]

\* mutant of toPayload: the object the handler returned is handed out as it is
toPayloadByReference(obj, s) ==
  obj

\* the result of the handler is encoded into the payload of the query response before
\* the workflow runs again: nothing of it refers to state any more
toPayload(obj, s) ==
  [value |-> Read(obj, s), shared |-> {}]

QInit ==
  answers = <<>>

\* a getProgress query is answered; of and at record the PipelineState and Date.now()
\* at the query
QueryGetProgress ==
  /\ Len(answers) < MaxQueries
  /\ LET payload == toPayload(getProgressHandler(state, Date_now), state)
     IN answers' = Append(answers, [value |-> payload.value, shared |-> payload.shared,
                                    of |-> state, at |-> Date_now])
  /\ UNCHANGED wfVars
  /\ UNCHANGED notQ

\* the workflow through its ordered phases pre-recon and recon and its catch block,
\* queried as it runs
NextQuery ==
  \/ QueryGetProgress
  \/ StartPreRecon
  \/ PreReconLogStartOk \/ PreReconLogStartFail
  \/ PreReconAgentOk \/ PreReconAgentFail
  \/ PreReconLogCompleteOk \/ PreReconLogCompleteFail
  \/ ReconLogStartOk \/ ReconLogStartFail
  \/ ReconAgentOk \/ ReconAgentFail
  \/ ReconLogCompleteOk \/ ReconLogCompleteFail
  \/ VulnExpLogStartFail
  \/ CatchLogOk \/ CatchLogFail

(***************************************************************************)
(* with_mutex and the session mutex                                        *)
(***************************************************************************)

\* the asynchronous callers of with_mutex
Callers == {"t1", "t2", "t3"}

\* the session ids they pass
Sessions == {"s1", "s2"}

\* most with_mutex calls made in one behaviour
MaxCalls == 4

\* how fn() settles: it resolves with a value or rejects with an error
FnOutcomes == {[ok |-> TRUE, value |-> "v1"], [ok |-> TRUE, value |-> "v2"],
               [ok |-> FALSE, error |-> "e1"]}

MXInit ==
  /\ mutexPc = [t \in Callers |-> "idle"]
  /\ session_id = [t \in Callers |-> "s1"]
  /\ session_mutex = [s \in Sessions |-> <<>>]
  /\ unlocks = [t \in Callers |-> 0]
  /\ settled = [t \in Callers |-> <<>>]
  /\ returned = [t \in Callers |-> <<>>]
  /\ calls = 0

\* mutant of LockKey: one lock for every session id
LockKeyGlobal(s) ==
  "s1"

\* the lock SessionMutex.lock(session_id) takes: one per session id
LockKey(s) ==
  s

\* caller t calls with_mutex(s, fn): up to its await of session_mutex.lock(s)
Call(t, s) ==
  /\ mutexPc[t] \in {"idle", "done"}
  /\ calls < MaxCalls
  /\ calls' = calls + 1
  /\ mutexPc' = [mutexPc EXCEPT ![t] = "lock"]
  /\ session_id' = [session_id EXCEPT ![t] = s]
  /\ unlocks' = [unlocks EXCEPT ![t] = 0]
  /\ settled' = [settled EXCEPT ![t] = <<>>]
  /\ returned' = [returned EXCEPT ![t] = <<>>]
  /\ UNCHANGED session_mutex
  /\ UNCHANGED notMX

\* session_mutex.lock(session_id) resolves for caller t with its unlock function: the
\* lock is free; with_mutex enters the try block and calls fn()
Lock(t) ==
  /\ mutexPc[t] = "lock"
  /\ session_mutex[LockKey(session_id[t])] = <<>>
  /\ session_mutex' = [session_mutex EXCEPT ![LockKey(session_id[t])] = <<t>>]
  /\ mutexPc' = [mutexPc EXCEPT ![t] = "fn"]
  /\ UNCHANGED <<session_id, unlocks, settled, returned, calls>>
  /\ UNCHANGED notMX

\* mutant of FnSettles: unlock() follows the await in the try block, not a finally
FnSettlesNoFinally(t, out) ==
  /\ mutexPc[t] = "fn"
  /\ settled' = [settled EXCEPT ![t] = <<out>>]
  /\ IF out.ok
       THEN /\ session_mutex' = [session_mutex EXCEPT ![LockKey(session_id[t])] = <<>>]
            /\ unlocks' = [unlocks EXCEPT ![t] = @ + 1]
       ELSE UNCHANGED <<session_mutex, unlocks>>
  /\ returned' = [returned EXCEPT ![t] = <<out>>]
  /\ mutexPc' = [mutexPc EXCEPT ![t] = "done"]
  /\ UNCHANGED <<session_id, calls>>
  /\ UNCHANGED notMX

\* fn() of caller t settles with out: the finally block calls unlock(), then with_mutex
\* resolves with the value of fn or rejects with its error
FnSettles(t, out) ==
  /\ mutexPc[t] = "fn"
  /\ settled' = [settled EXCEPT ![t] = <<out>>]
  /\ session_mutex' = [session_mutex EXCEPT ![LockKey(session_id[t])] = <<>>]
  /\ unlocks' = [unlocks EXCEPT ![t] = @ + 1]
  /\ returned' = [returned EXCEPT ![t] = <<out>>]
  /\ mutexPc' = [mutexPc EXCEPT ![t] = "done"]
  /\ UNCHANGED <<session_id, calls>>
  /\ UNCHANGED notMX

NextMutex ==
  \/ \E t \in Callers, s \in Sessions : Call(t, s)
  \/ \E t \in Callers : Lock(t)
  \/ \E t \in Callers, out \in FnOutcomes : FnSettles(t, out)

\* no query is made
QParked ==
  answers = <<>>

\* with_mutex is not called
MXParked ==
  /\ mutexPc = [t \in Callers |-> "idle"]
  /\ session_id = [t \in Callers |-> "s1"]
  /\ session_mutex = [s \in Sessions |-> <<>>]
  /\ unlocks = [t \in Callers |-> 0]
  /\ settled = [t \in Callers |-> <<>>]
  /\ returned = [t \in Callers |-> <<>>]
  /\ calls = 0

(***************************************************************************)
(* WorkflowLogger                                                          *)
(***************************************************************************)

\* the coroutines that call initialize() and logEvent() on one logger
LogCallers == {"a1", "a2"}

MaxLogCalls == 3

\* writableHighWaterMark of the write stream, counted in log texts: write() returns
\* false when the texts not yet flushed, the new one included, reach it
highWaterMark == 2

\* the texts written: the header and a log line, tagged with the call that wrote them
Header(n) == <<"header", n>>

Line(n) == <<"line", n>>

IdleCall ==
  [pc |-> "idle", n |-> 0, line |-> FALSE, on |-> 0, text |-> <<>>, after |-> "idle"]

\* a new WorkflowLogger; the log file is absent (or empty), or left by an earlier
\* logger of the same workflow
LGInit ==
  /\ logger = [initialized |-> FALSE, stream |-> 0]
  /\ writeStreams = <<>>
  /\ diskFile \in {<<>>, <<Header(0)>>}
  /\ lgCall = [t \in LogCallers |-> IdleCall]
  /\ resolved = {}
  /\ lgCalls = 0

\* no WorkflowLogger
LGParked ==
  /\ logger = [initialized |-> FALSE, stream |-> 0]
  /\ writeStreams = <<>>
  /\ diskFile = <<>>
  /\ lgCall = [t \in LogCallers |-> IdleCall]
  /\ resolved = {}
  /\ lgCalls = 0

\* writeRaw(text) called by t, which goes on at `after` once the promise resolves:
\* the text is handed to stream.write; the promise resolves at once when write()
\* returns true and on the stream's next 'drain' otherwise.  (The callback of write
\* only rejects, on an error; writes to the disk are taken to succeed.)
writeRaw(t, text, after) ==
  LET id == logger.stream
      buffered == Append(writeStreams[id].buffered, text)
      needsDrain == ~(Len(buffered) < highWaterMark)
  IN  IF ~logger.initialized \/ logger.stream = 0
        THEN /\ lgCall' = [lgCall EXCEPT ![t] = IdleCall]
             /\ UNCHANGED <<writeStreams, resolved>>
        ELSE /\ writeStreams' = [writeStreams EXCEPT ![id] =
                                   [buffered |-> buffered,
                                    needDrain |-> @.needDrain \/ needsDrain]]
             /\ IF needsDrain
                  THEN /\ lgCall' = [lgCall EXCEPT ![t] =
                                       [@ EXCEPT !.pc = "drain", !.on = id,
                                                 !.text = text, !.after = after]]
                       /\ resolved' = resolved
                  ELSE /\ lgCall' = [lgCall EXCEPT ![t].pc = after]
                       /\ resolved' = resolved \cup {text}

\* initialize() is called: it returns at once on an initialized logger, else it runs
\* to its await of ensureDirectory
InitializeCall(t) ==
  /\ lgCall[t].pc = "idle"
  /\ lgCalls < MaxLogCalls
  /\ lgCalls' = lgCalls + 1
  /\ IF logger.initialized
       THEN lgCall' = lgCall
       ELSE lgCall' = [lgCall EXCEPT ![t] =
                         [IdleCall EXCEPT !.pc = "ensureDirectory", !.n = lgCalls + 1]]
  /\ UNCHANGED <<logger, writeStreams, diskFile, resolved>>
  /\ UNCHANGED notLG

\* logEvent() is called: ensureInitialized, then writeRaw(line)
LogEventCall(t) ==
  /\ lgCall[t].pc = "idle"
  /\ lgCalls < MaxLogCalls
  /\ lgCalls' = lgCalls + 1
  /\ IF logger.initialized
       THEN writeRaw(t, Line(lgCalls + 1), "idle")
       ELSE /\ lgCall' = [lgCall EXCEPT ![t] =
                            [IdleCall EXCEPT !.pc = "ensureDirectory", !.n = lgCalls + 1,
                                             !.line = TRUE]]
            /\ UNCHANGED <<writeStreams, resolved>>
  /\ UNCHANGED <<logger, diskFile>>
  /\ UNCHANGED notLG

\* ensureDirectory resolves: initialize() creates the write stream, sets initialized
\* and runs to its await of fs.promises.stat
EnsureDirectoryResolves(t) ==
  /\ lgCall[t].pc = "ensureDirectory"
  /\ writeStreams' = Append(writeStreams, [buffered |-> <<>>, needDrain |-> FALSE])
  /\ logger' = [initialized |-> TRUE, stream |-> Len(writeStreams) + 1]
  /\ lgCall' = [lgCall EXCEPT ![t].pc = "stat"]
  /\ UNCHANGED <<diskFile, resolved, lgCalls>>
  /\ UNCHANGED notLG

\* stat resolves (or rejects: no file yet) with the size of what is on the disk;
\* on size 0 the header is written
StatResolves(t) ==
  /\ lgCall[t].pc = "stat"
  /\ IF Len(diskFile) = 0
       THEN writeRaw(t, Header(lgCall[t].n), "initialized")
       ELSE /\ lgCall' = [lgCall EXCEPT ![t].pc = "initialized"]
            /\ UNCHANGED <<writeStreams, resolved>>
  /\ UNCHANGED <<logger, diskFile, lgCalls>>
  /\ UNCHANGED notLG

\* initialize() returns to its caller; logEvent goes on to writeRaw(line)
InitializeReturns(t) ==
  /\ lgCall[t].pc = "initialized"
  /\ IF lgCall[t].line
       THEN writeRaw(t, Line(lgCall[t].n), "idle")
       ELSE /\ lgCall' = [lgCall EXCEPT ![t] = IdleCall]
            /\ UNCHANGED <<writeStreams, resolved>>
  /\ UNCHANGED <<logger, diskFile, lgCalls>>
  /\ UNCHANGED notLG

\* the stream flushes its oldest text to the file; when nothing is left after a
\* write() that returned false it emits 'drain'
Flush(id) ==
  /\ id \in 1..Len(writeStreams)
  /\ writeStreams[id].buffered # <<>>
  /\ LET rest == Tail(writeStreams[id].buffered)
         drain == rest = <<>> /\ writeStreams[id].needDrain
         waiting == {t \in LogCallers : lgCall[t].pc = "drain" /\ lgCall[t].on = id}
     IN  /\ diskFile' = Append(diskFile, Head(writeStreams[id].buffered))
         /\ writeStreams' = [writeStreams EXCEPT ![id] =
                               [buffered |-> rest,
                                needDrain |-> @.needDrain /\ rest # <<>>]]
         /\ IF drain
              THEN /\ lgCall' = [t \in LogCallers |->
                                   IF t \in waiting
                                     THEN [lgCall[t] EXCEPT !.pc = lgCall[t].after]
                                     ELSE lgCall[t]]
                   /\ resolved' = resolved \cup {lgCall[t].text : t \in waiting}
              ELSE UNCHANGED <<lgCall, resolved>>
  /\ UNCHANGED <<logger, lgCalls>>
  /\ UNCHANGED notLG

NextLogger ==
  \/ \E t \in LogCallers : InitializeCall(t)
  \/ \E t \in LogCallers : LogEventCall(t)
  \/ \E t \in LogCallers : EnsureDirectoryResolves(t)
  \/ \E t \in LogCallers : StatResolves(t)
  \/ \E t \in LogCallers : InitializeReturns(t)
  \/ \E id \in 1..MaxLogCalls : Flush(id)

(***************************************************************************)
(* Specifications                                                          *)
(***************************************************************************)

vars == <<wfVars, rtVars, wsVars, qVars, mxVars, lgVars>>

Init == WFInit /\ RTParked /\ WSParked /\ QParked /\ MXParked /\ LGParked

\* the workflow alone
Spec == Init /\ [][NextWF]_vars

InitRetry == WFInit /\ RTInit /\ WSParked /\ QParked /\ MXParked /\ LGParked

\* the retry executor alone
SpecRetry == InitRetry /\ [][NextRetry]_vars

\* the executor is one sequential coroutine: provided every call it awaits (runner,
\* validator, checkpoint, rollback, delay) settles, its next step is eventually taken
SpecRetryFair == SpecRetry /\ WF_vars(NextRetry)

InitWS == WFInit /\ RTParked /\ WSInit /\ QParked /\ MXParked /\ LGParked

\* the WebSocket server alone
SpecWS == InitWS /\ [][NextWS]_vars

\* the WebSocket server over every outcome of TemporalBridge.getProgress
SpecBridge == InitWS /\ [][NextBridge]_vars

\* the WebSocket server with failing polls as time passes
SpecClock == InitWS /\ [][NextClock]_vars

\* the WebSocket server broadcasting the progress of a run to its subscriptions
SpecBroadcast == InitWS /\ [][NextBroadcast]_vars

\* the WebSocket server tailing a log that grows
SpecTail == InitWS /\ [][NextTail]_vars

InitQuery == WFInit /\ RTParked /\ WSParked /\ QInit /\ MXParked /\ LGParked

\* the workflow answering getProgress queries
SpecQuery == InitQuery /\ [][NextQuery]_vars

InitMutex == WFInit /\ RTParked /\ WSParked /\ QParked /\ MXInit /\ LGParked

\* callers of with_mutex
SpecMutex == InitMutex /\ [][NextMutex]_vars

InitLogger == WFInit /\ RTParked /\ WSParked /\ QParked /\ MXParked /\ LGInit

\* callers of one WorkflowLogger
SpecLogger == InitLogger /\ [][NextLogger]_vars

(***************************************************************************)
(* Claims about the workflow                                               *)
(***************************************************************************)

\* C1: in every state a getProgress query can observe, summary is non-null
\* if and only if status is not 'running'.
C1_SummaryIffNotRunning ==
  (state.summary # <<>>) <=> (state.status # "running")

\* C1 witness: a failed run and its summary, observed while the catch block awaits
\* logWorkflowComplete
C1_Witness ==
  /\ pc = "catch_logWorkflowComplete"
  /\ state.status = "failed"
  /\ state.summary # <<>>

\* C2: once status is 'completed' or 'failed', no later step changes status or any
\* other field of the Run record (stated as written; the code violates it).
C2_TerminalImmutable ==
  [][state.status # "running" => state' = state]_vars

\* the activities the main coroutine of the workflow awaits inside its try block
MainActivities ==
  {"logPhaseTransition", "runPreReconAgent", "runReconAgent", "assembleReportActivity",
   "runReportAgent", "injectReportMetadataActivity", "logWorkflowComplete"}

PipelineStep(v) ==
  \/ VulnAgentOk(v) \/ VulnAgentFail(v)
  \/ QueueCheckOk(v) \/ QueueCheckFail(v)
  \/ ExploitAgentOk(v) \/ ExploitAgentFail(v)

\* C3: a rejected sub-pipeline does not stop its siblings (an unsettled sub-pipeline
\* can always take its next step and the orchestrator is still waiting for it), the
\* reporting phase and everything after it start only once all sub-pipelines have
\* settled, and a failed run was never failed by a sub-pipeline's rejection.
C3_FailureIsolation ==
  /\ \A v \in VulnTypes :
       pipe[v] \in {"vuln", "queue", "exploit"} => pc = "allSettled" /\ ENABLED PipelineStep(v)
  /\ pc \notin {"start", "prerecon_logStart", "prerecon_agent", "prerecon_logComplete",
                "recon_logStart", "recon_agent", "recon_logComplete", "vulnexp_logStart",
                "allSettled"}
       => \/ Settled(pipe)
          \/ \A v \in VulnTypes : pipe[v] = "idle"
  /\ (\E v \in VulnTypes : pipe[v] = "rejected") /\ pc \in {"allSettled", "vulnexp_logComplete"}
       => state.status = "running"
  /\ state.status = "failed" => caught \in {ErrOf(a) : a \in MainActivities}

\* C3 witness: the reporting phase runs after one sub-pipeline rejected and the
\* others fulfilled
C3_Witness ==
  /\ pc = "report_agent"
  /\ state.status = "running"
  /\ Cardinality({v \in VulnTypes : pipe[v] = "rejected"}) = 1
  /\ Cardinality({v \in VulnTypes : pipe[v] = "fulfilled"}) = NumPipelines - 1

\* errors of the units of the ordered phases
UnitOf ==
  [e \in {ErrOf("runPreReconAgent"), ErrOf("runReconAgent"), ErrOf("runReportAgent")} |->
     IF e = ErrOf("runPreReconAgent") THEN "pre-recon"
     ELSE IF e = ErrOf("runReconAgent") THEN "recon" ELSE "report"]

\* C4: if a unit of an ordered phase fails, the workflow ends with status 'failed',
\* error = the failure message, failedAgent = the unit in progress, a summary, the
\* completed units kept, logWorkflowComplete('failed') invoked, no later phase
\* started, and the original error re-raised (stated as written; the code violates it).
C4_OrderedUnitFailure ==
  (pc = "done" /\ caught \in DOMAIN UnitOf) =>
     /\ state.status = "failed"
     /\ state.error = caught
     /\ state.failedAgent = UnitOf[caught]
     /\ state.summary # <<>>
     /\ state.completedAgents = preCatch[1].completedAgents
     /\ state.currentPhase = preCatch[1].currentPhase
     /\ wfLog = <<"failed">>
     /\ outcome = "thrown"
     /\ thrown = caught


(***************************************************************************)
(* Claims about the retry executor                                         *)
(***************************************************************************)

\* the positions of the calls of one kind
Idx(kind) == {i \in 1..Len(events) : events[i].ev = kind}

Count(kind) == Cardinality(Idx(kind))

\* the calls made for attempt k of one kind
CountAt(kind, k) == Cardinality({i \in Idx(kind) : events[i].attempt = k})

\* the outcomes of run_single_attempt so far, in order
RunnerOutcomes == Idx("raise") \cup Idx("success") \cup Idx("failure")

\* the runner raised a retryable error on each of the attempts 1..k and nothing else
RetryableRaises(k) ==
  /\ Count("raise") = k
  /\ \A i \in Idx("raise") : events[i].info \in RETRYABLE_PATTERNS
  /\ \A j \in 1..k : CountAt("raise", j) = 1

\* C5: if the runner raises a retryable error on every attempt, the executor raises
\* (once, ending the call) the last attempt's error after exactly max_retries
\* checkpoints, max_retries rollbacks (one per attempt) and no commit.
C5_RetryableExhaustion ==
  (rpc = "done" /\ RetryableRaises(max_retries) /\ RunnerOutcomes = Idx("raise")) =>
     /\ rtOutcome = "raised"
     /\ \E i \in Idx("raise") : events[i].attempt = max_retries /\ rtValue = <<events[i].info>>
     /\ Count("checkpoint") = max_retries
     /\ Count("rollback") = max_retries
     /\ \A k \in 1..max_retries : CountAt("checkpoint", k) = 1 /\ CountAt("rollback", k) = 1
     /\ Count("commit") = 0

\* C5 witness: three attempts, each raising a retryable error, the last one differing
\* from the first
C5_Witness ==
  /\ rpc = "done" /\ max_retries = 3
  /\ RetryableRaises(3) /\ RunnerOutcomes = Idx("raise")
  /\ rtValue = <<"timeout">>
  /\ \E i \in Idx("raise") : events[i].attempt = 1 /\ events[i].info = "rate limit"

\* the calls after position i, audit calls left out
After(i) == SelectSeq(SubSeq(events, i + 1, Len(events)), LAMBDA e : e.ev # "endAgent")

\* C6: a non-retryable error raised by the runner on attempt k is followed by exactly
\* one rollback of attempt k and nothing else (no delay, no checkpoint, no attempt
\* k+1), and the executor has raised that error.
C6_NonRetryableImmediate ==
  \A i \in Idx("raise") :
    events[i].info \in NON_RETRYABLE_PATTERNS =>
       /\ After(i) = <<Ev("rollback", events[i].attempt, "non-retryable error cleanup")>>
       /\ rpc = "done" /\ rtOutcome = "raised" /\ rtValue = <<events[i].info>>
       /\ attempt = events[i].attempt
       /\ Count("checkpoint") = events[i].attempt
       /\ CountAt("rollback", events[i].attempt) = 1

\* C6 witness: "invalid api key" on attempt 1 with budget left
C6_Witness ==
  /\ max_retries = 3 /\ rpc = "done"
  /\ \E i \in Idx("raise") : events[i].attempt = 1 /\ events[i].info = "invalid api key"
  /\ Count("checkpoint") = 1 /\ Count("rollback") = 1

\* C7: when the runner succeeds on attempt k and the validator passes, the executor
\* commits exactly once as its last call, returns that attempt's result, and attempt
\* k is not rolled back.
C7_ValidatedSuccessCommits ==
  \A i \in Idx("valid") :
    LET k == events[i].attempt
    IN /\ After(i) = <<Ev("commit", k, "")>>
       /\ Count("commit") = 1
       /\ CountAt("rollback", k) = 0
       /\ rpc = "done" /\ rtOutcome = "returned"
       /\ Len(rtValue) = 1 /\ rtValue[1].attempt = k /\ rtValue[1].success
       /\ attempt = k
       /\ Count("checkpoint") = k

\* C7 witness: success on attempt 1: 1 checkpoint, 0 rollbacks, 1 commit
C7_Witness ==
  /\ rpc = "done" /\ rtOutcome = "returned"
  /\ Count("valid") = 1 /\ attempt = 1 /\ max_retries = 3
  /\ Count("checkpoint") = 1 /\ Count("rollback") = 0 /\ Count("commit") = 1

\* C8: retryable errors on attempts 1..k (k < max_retries) and a validated success on
\* attempt k+1: the result of attempt k+1 is returned after exactly k+1 checkpoints,
\* k rollbacks, k backoff delays and one commit.
C8_RetryThenSuccess ==
  \A k \in 1..(max_retries - 1) :
    (rpc = "done" /\ RetryableRaises(k) /\ Count("valid") = 1
       /\ RunnerOutcomes = Idx("raise") \cup Idx("success") /\ Count("success") = 1) =>
       /\ rtOutcome = "returned" /\ rtValue[1].attempt = k + 1
       /\ Count("checkpoint") = k + 1
       /\ Count("rollback") = k
       /\ Count("delay") = k
       /\ Count("commit") = 1

\* C8 witness: Scenario B, "rate limit" on attempts 1 and 2, success on attempt 3
C8_Witness ==
  /\ rpc = "done" /\ rtOutcome = "returned" /\ rtValue[1].attempt = 3
  /\ RetryableRaises(2)
  /\ \A i \in Idx("raise") : events[i].info = "rate limit"
  /\ Count("checkpoint") = 3 /\ Count("rollback") = 2 /\ Count("delay") = 2

\* C9: a failed validation on attempt k < max_retries is followed by the rollback of
\* attempt k and then by attempt k+1; a failed validation on the last attempt makes
\* the executor raise the validation error, with that attempt rolled back (once) too.
C9_ValidationFailure ==
  \A i \in Idx("invalid") :
    LET k == events[i].attempt
        rest == After(i)
    IN /\ Len(rest) >= 1 /\ rest[1].ev = "rollback" /\ rest[1].attempt = k
       /\ CountAt("rollback", k) = 1
       /\ IF k < max_retries
            THEN /\ attempt >= k + 1
                 /\ rtOutcome = "none" => rpc # "done"
                 /\ Len(rest) >= 2 => rest[2] = Ev("checkpoint", k + 1, "")
                 /\ Len(rest) = 1 => rpc = "checkpoint" /\ attempt = k + 1
            ELSE /\ rpc = "done" /\ rtOutcome = "raised"
                 /\ rtValue = <<ValidationExhausted>>
                 /\ Len(rest) = 1

\* C9 witness: validation fails on attempt 1 and again on the last attempt 2
C9_Witness ==
  /\ max_retries = 2 /\ rpc = "done"
  /\ CountAt("invalid", 1) = 1 /\ CountAt("invalid", 2) = 1
  /\ rtValue = <<ValidationExhausted>>
  /\ Count("rollback") = 2

(***************************************************************************)
(* Claims about the progress bridge                                        *)
(***************************************************************************)

\* C10: for each run id there is at most one poll loop, and at most one getProgress
\* query in flight, at any time (stated as written; the code violates it).
C10_SinglePollLoop ==
  \A w \in Runs :
    /\ Cardinality(LiveLoops(w)) <= 1
    /\ Cardinality({i \in 1..MaxLoops : loops[w][i] = "query"}) <= 1

\* the connections that hold a subscription to w
SubscribersOf(w) == {subscriptions[w][k].ws : k \in 1..Len(subscriptions[w])}

\* the messages of msgs whose type is one of types, in order
OfType(msgs, types) == SelectSeq(msgs, LAMBDA m : m.type \in types)

\* C11: when a poll obtains a terminal progress (completed or failed), it sends each
\* connection subscribed to the run exactly one 'progress' message carrying that
\* progress, followed by exactly one terminal message ('complete' or 'failed'), and the
\* closure schedules no further poll for the run (stated as written; the code violates
\* it).
C11_TerminalPoll ==
  [][\A w \in Watched, i \in 1..MaxLoops, p \in AnsweringPolls :
       (/\ ~getProgress(p[1], p[2], p[3]).threw
        /\ getProgress(p[1], p[2], p[3]).progress.status \in {"completed", "failed"}
        /\ PollQueryOk(w, i, p[2], p[3]))
         => LET progress == getProgress(p[1], p[2], p[3]).progress
            IN /\ \A c \in SubscribersOf(w) :
                    OfType(sent'[c], {"progress", "complete", "failed"})
                      = <<ProgressMsg(progress),
                          [type |-> IF progress.status = "completed" THEN "complete"
                                      ELSE "failed",
                           workflowId |-> w, error |-> progress.error]>>
               /\ loops'[w][i] = "none"
               /\ pollIntervals'[w] = <<>>]_vars

\* an 'error' message with this text is sent to a subscriber in this step
ErrorBroadcast(message) ==
  \E c \in Clients : \E k \in 1..Len(sent'[c]) : sent'[c][k] = ErrorMsg(message)

\* C12 as written: a poll failure of a run with subscribers is broadcast as an 'error'
\* only when no 'error' was broadcast for the run before, or its text differs from the
\* last one broadcast, or more than 30000 ms have passed since that broadcast; so two
\* successive failures with the same text within 30000 ms give one 'error' message.
C12_ErrorDedupAsWritten ==
  [][\A w \in Watched, i \in 1..MaxLoops, p \in FailingPolls :
       (/\ getProgress(p[1], p[2], p[3]).threw
        /\ subscriptions[w] # <<>>
        /\ PollQueryFail(w, i, p[1], p[2], p[3]))
         => LET text == "Failed to query workflow: " \o getProgress(p[1], p[2], p[3]).message
            IN ErrorBroadcast(text)
                 => \/ lastErrorSent[w] = <<>>
                    \/ lastErrorSent[w][1].message # text
                    \/ now - lastErrorSent[w][1].at > 30000]_vars

\* C12 (amended): a poll failure of a run with subscribers is broadcast as an 'error'
\* exactly when the run has no cached error entry (none was broadcast yet, or stopPolling
\* deleted the entry since: the last subscription was removed or a terminal poll came),
\* or its text differs from the last 'error' broadcast, or more than 30000 ms have
\* passed since that broadcast.
C12_ErrorDedup ==
  [][\A w \in Watched, i \in 1..MaxLoops, p \in FailingPolls :
       (/\ getProgress(p[1], p[2], p[3]).threw
        /\ subscriptions[w] # <<>>
        /\ PollQueryFail(w, i, p[1], p[2], p[3]))
         => LET text == "Failed to query workflow: " \o getProgress(p[1], p[2], p[3]).message
            IN ErrorBroadcast(text)
                 <=> \/ lastPollErrors[w] = <<>>
                     \/ lastErrorSent[w] = <<>>
                     \/ lastErrorSent[w][1].message # text
                     \/ now - lastErrorSent[w][1].at > 30000]_vars

\* C12 witness: an 'error' was broadcast and a later failure of the run, within the
\* cooldown and with the same text, was not
C12_Witness ==
  /\ lastErrorSent["w1"] # <<>>
  /\ lastErrorSent["w1"][1].suppressed
  /\ now - lastErrorSent["w1"][1].at <= 30000
  /\ lastPollErrors["w1"] # <<>>
  /\ sent["c1"] = <<>>

\* C13: when the query reports 'running' and describe() reports a status other than
\* RUNNING, the snapshot the poll obtains has the terminal status derived from
\* describe() ('completed' for COMPLETED, 'failed' otherwise), the currentPhase,
\* currentAgent, completedAgents, failedAgent and agentMetrics of the query, and as
\* error the query's error if it is not null and the reconciliation note otherwise;
\* every subscriber is sent that snapshot and the terminal message, and the poll loop
\* of the run stops: no poll of the run remains scheduled (stated as written; the
\* code violates it).
C13_Reconciliation ==
  [][\A w \in Watched, i \in 1..MaxLoops, p \in {RunningEarly, RunningLate},
        name \in DescribeNames \ {"RUNNING"} :
       PollQueryOk(w, i, [ok |-> TRUE, progress |-> p], [ok |-> TRUE, name |-> name])
         => LET data == getProgress(TRUE, [ok |-> TRUE, progress |-> p],
                                    [ok |-> TRUE, name |-> name]).progress
            IN /\ data.status = IF name = "COMPLETED" THEN "completed" ELSE "failed"
               /\ data.currentPhase = p.currentPhase
               /\ data.currentAgent = p.currentAgent
               /\ data.completedAgents = p.completedAgents
               /\ data.failedAgent = p.failedAgent
               /\ data.agentMetrics = p.agentMetrics
               /\ data.error = IF p.error # null THEN p.error
                               ELSE IF name = "COMPLETED" THEN "Workflow is completed"
                               ELSE IF name = "FAILED" THEN "Workflow is failed"
                               ELSE IF name = "TERMINATED" THEN "Workflow is terminated"
                               ELSE "Workflow is not running"
               /\ \A c \in SubscribersOf(w) :
                    \E k \in 1..Len(sent'[c]) : sent'[c][k] = [type |-> "progress", data |-> data]
               /\ loops'[w][i] = "none"
               /\ \A j \in 1..MaxLoops : loops'[w][j] # "timer"]_vars

UnavailableErrors == {"FAILED_PRECONDITION", "no poller seen for task queue recently"}

\* C14: when the query fails with an error of the query-unavailable class and
\* describe() succeeds, the poll gets a snapshot and not an error: its status is that
\* of describe(), its progress fields are empty, and no 'error' message goes to the
\* subscribers; with any other query error, or when describe() fails too, the query
\* error is rethrown to the poll.
C14_QueryUnavailable ==
  [][\A w \in Watched, i \in 1..MaxLoops, d \in DescribeOutcomes,
        q \in {[ok |-> FALSE, message |-> m] : m \in QueryErrors} :
         /\ PollQueryOk(w, i, q, d)
              => /\ q.message \in UnavailableErrors /\ d.ok
                 /\ \A c \in SubscribersOf(w) :
                      /\ OfType(sent'[c], {"error"}) = <<>>
                      /\ OfType(sent'[c], {"progress"})
                           = <<[type |-> "progress",
                                data |-> [status |-> IF d.name = "RUNNING" THEN "running"
                                                     ELSE IF d.name = "COMPLETED"
                                                       THEN "completed" ELSE "failed",
                                          currentPhase |-> null, currentAgent |-> null,
                                          completedAgents |-> <<>>, failedAgent |-> null,
                                          agentMetrics |-> <<>>,
                                          error |-> IF d.name = "RUNNING" THEN null
                                                    ELSE "Workflow query unavailable: "
                                                           \o q.message]]>>
         /\ PollQueryFail(w, i, TRUE, q, d)
              => /\ ~(q.message \in UnavailableErrors /\ d.ok)
                 /\ lastPollErrors[w] = <<>>
                      => \A c \in SubscribersOf(w) :
                           sent'[c] = <<[type |-> "error",
                                         message |-> "Failed to query workflow: "
                                                       \o q.message]>>]_vars

\* C14 witness: the query failed with FAILED_PRECONDITION, describe() said RUNNING, and
\* the subscriber was sent the snapshot built from describe()
C14_Witness ==
  /\ sent["c1"] = <<[type |-> "progress",
                     data |-> [status |-> "running", currentPhase |-> null,
                               currentAgent |-> null, completedAgents |-> <<>>,
                               failedAgent |-> null, agentMetrics |-> <<>>,
                               error |-> null]]>>
  /\ \E i \in 1..MaxLoops : loops["w1"][i] = "timer"

\* closure of w that runs poll() up to its await of temporal.getProgress in this step
QueryIssued(w) ==
  \E i \in 1..MaxLoops : loops[w][i] # "query" /\ loops'[w][i] = "query"

\* C15: once the last subscription of a run is removed, no getProgress query is issued
\* for the run until a connection subscribes again, and the run has no cached
\* error-dedup entry while it has no subscription, a poll in flight at the removal
\* included (stated as written; the code violates it).
C15_LastUnsubscribeStops ==
  [][\A w \in Watched :
       /\ QueryIssued(w) => subscriptions'[w] # <<>>
       /\ subscriptions'[w] = <<>> => lastPollErrors'[w] = <<>>]_vars

\* C16: log tailing never sends a subscription a byte of the log file it was sent
\* before: the lines a read stream delivers start at offsets not yet delivered to
\* that subscription (stated as written; the code violates it).
C16_NoByteTwice ==
  [][\A k \in 1..MaxStreams :
       (k <= Len(streams) /\ streams[k].ws \in connected /\ StreamData(k))
         => OffsetsOf(NextChunk(streams[k]).lines)
              \cap tailed[streams[k].run][streams[k].sub] = {}]_vars

(***************************************************************************)
(* Claims about with_mutex                                                 *)
(***************************************************************************)

\* C17: a with_mutex call that has settled called unlock() exactly once, whether fn
\* resolved or rejected, and settled to its caller as fn settled (same value, same
\* error); before that it has not called unlock(); and the lock of a session id is
\* held only by a call for that session id whose fn is running, so a later call for
\* the same session id can take it.
C17_WithMutexReleases ==
  \A t \in Callers :
    /\ mutexPc[t] = "done" => /\ unlocks[t] = 1
                              /\ settled[t] # <<>>
                              /\ returned[t] = settled[t]
    /\ mutexPc[t] # "done" => unlocks[t] = 0 /\ returned[t] = <<>>
    /\ \A s \in Sessions : session_mutex[s] = <<t>> => mutexPc[t] = "fn" /\ session_id[t] = s

\* C17 witness: a call whose fn rejected has settled with that error, and a later call
\* for the same session id holds the lock
C17_Witness ==
  \E t, u \in Callers :
    /\ mutexPc[t] = "done" /\ returned[t] = <<[ok |-> FALSE, error |-> "e1"]>>
    /\ mutexPc[u] = "fn" /\ session_id[u] = session_id[t]
    /\ session_mutex[session_id[t]] = <<u>>

\* C18: two calls with the same session id never run their fn at the same time, and a
\* call waiting for the lock waits only for a call with its own session id: when no
\* call with its session id is running fn, it can take the lock.
C18_PerSessionExclusion ==
  /\ \A t, u \in Callers :
       (t # u /\ mutexPc[t] = "fn" /\ mutexPc[u] = "fn") => session_id[t] # session_id[u]
  /\ \A t \in Callers :
       (/\ mutexPc[t] = "lock"
        /\ \A u \in Callers : mutexPc[u] = "fn" => session_id[u] # session_id[t])
         => ENABLED Lock(t)

\* C18 witness: two calls with different session ids run their fn at the same time
\* while a third waits for the lock one of them holds
C18_Witness ==
  \E t, u, v \in Callers :
    /\ mutexPc[t] = "fn" /\ mutexPc[u] = "fn" /\ session_id[t] # session_id[u]
    /\ mutexPc[v] = "lock" /\ session_id[v] = session_id[t]

(***************************************************************************)
(* Claims about the getProgress query                                      *)
(***************************************************************************)

\* the fields of a snapshot other than elapsedMs
SnapshotFields == {"status", "currentPhase", "currentAgent", "completedAgents",
                   "failedAgent", "error", "startTime", "agentMetrics", "summary",
                   "workflowId"}

\* C19 as written: two queries between which no field of the PipelineState changed
\* return snapshots equal in every field.
C19_QueryIdempotentAsWritten ==
  \A j, k \in 1..Len(answers) :
    answers[j].of = answers[k].of => answers[j].value = answers[k].value

\* C19 (amended): two queries between which no field of the PipelineState changed
\* return snapshots equal in every field but elapsedMs; elapsedMs is Date.now() at the
\* query less startTime, so it is equal too when no workflow task ran in between.
C19_QueryIdempotent ==
  \A j, k \in 1..Len(answers) :
    answers[j].of = answers[k].of
      => /\ \A f \in SnapshotFields : answers[j].value[f] = answers[k].value[f]
         /\ answers[j].value.elapsedMs = answers[j].at - answers[j].value.startTime
         /\ answers[j].at = answers[k].at
              => answers[j].value.elapsedMs = answers[k].value.elapsedMs

\* C19 witness: two queries with the same PipelineState and a workflow task between
\* them
C19_Witness ==
  /\ Len(answers) >= 2
  /\ \E j, k \in 1..Len(answers) :
       j < k /\ answers[j].of = answers[k].of /\ answers[j].at < answers[k].at

NoDuplicates(seq) == Cardinality({seq[i] : i \in 1..Len(seq)}) = Len(seq)

IsPrefix(a, b) == Len(a) <= Len(b) /\ SubSeq(b, 1, Len(a)) = a

\* C21: every unit name occurs at most once in completedAgents, and completedAgents
\* only grows by appending: its value before a step is a prefix of its value after.
C21_CompletedAgentsAppendOnly ==
  [][/\ NoDuplicates(state.completedAgents)
     /\ NoDuplicates(state'.completedAgents)
     /\ IsPrefix(state.completedAgents, state'.completedAgents)]_vars

\* C21 witness: units of three phases, a vuln agent and its exploit agent among
\* them, have been appended
C21_Witness ==
  /\ Len(state.completedAgents) >= 4
  /\ \E v \in VulnTypes :
       {VulnAgent(v), ExploitAgent(v)} \subseteq {state.completedAgents[i] : i \in 1..Len(state.completedAgents)}

\* the phase a unit of completedAgents belongs to, numbered in execution order
PhaseRank(name) ==
  IF name = "pre-recon" THEN 1
  ELSE IF name = "recon" THEN 2
  ELSE IF name = "report" THEN 4 ELSE 3

HasCompleted(name) ==
  \E i \in 1..Len(state.completedAgents) : state.completedAgents[i] = name

\* C22: the recon unit runs only after pre-recon has completed, a sub-pipeline has
\* started only after recon has completed, the report unit runs only after every
\* sub-pipeline has settled, and in completedAgents 'pre-recon' precedes 'recon',
\* which precedes every '*-vuln' and '*-exploit', which precede 'report'.
C22_PhaseOrder ==
  LET done == state.completedAgents
      names == {done[i] : i \in 1..Len(done)}
  IN  /\ pc = "recon_agent" => "pre-recon" \in names
      /\ (\E v \in VulnTypes : pipe[v] # "idle") => {"pre-recon", "recon"} \subseteq names
      /\ pc = "report_agent" \/ "report" \in names
           => /\ \A v \in VulnTypes : pipe[v] \in {"fulfilled", "rejected"}
              /\ {"pre-recon", "recon"} \subseteq names
      /\ \A i \in 1..(Len(done) - 1) :
           \/ PhaseRank(done[i]) < PhaseRank(done[i + 1])
           \/ PhaseRank(done[i]) = 3 /\ PhaseRank(done[i + 1]) = 3

\* C22 witness: a completed run whose completedAgents holds units of all four phases
C22_Witness ==
  /\ state.status = "completed"
  /\ HasCompleted("pre-recon") /\ HasCompleted("recon") /\ HasCompleted("report")
  /\ \E v \in VulnTypes : HasCompleted(VulnAgent(v)) /\ HasCompleted(ExploitAgent(v))

\* C23: in each sub-pipeline the gate is invoked only after the vuln agent has
\* completed, the exploit agent starts only when the gate returns, and only if the
\* decision's shouldExploit is true; so 'X-exploit' enters completedAgents only
\* while the exploit agent started by a true decision is running, and behind 'X-vuln'.
C23_GateOrder ==
  [][LET done == state.completedAgents
         before == {done[i] : i \in 1..Len(done)}
         after == {state'.completedAgents[i] : i \in 1..Len(state'.completedAgents)}
     IN  \A v \in VulnTypes :
           /\ pipe[v] \in {"queue", "exploit"} => VulnAgent(v) \in before
           /\ pipe[v] = "queue" /\ pipe'[v] # "queue" =>
                \A b \in BOOLEAN :
                  QueueCheck(v, b) =>
                    (pipe'[v] = "exploit" <=> b) /\ (pipe'[v] = "fulfilled" <=> ~b)
           /\ pipe[v] # "exploit" /\ pipe'[v] = "exploit" => QueueCheck(v, TRUE)
           /\ (state'.completedAgents # done /\ ExploitAgent(v) \in after \ before) =>
                /\ pipe[v] = "exploit"
                /\ VulnAgent(v) \in before
                /\ state'.completedAgents = Append(done, ExploitAgent(v))]_vars

\* C23 witness: one sub-pipeline returned after a false decision, without an exploit
\* unit, and another completed its exploit agent after a true decision
C23_Witness ==
  \E v, u \in VulnTypes :
    /\ pipe[v] = "fulfilled" /\ HasCompleted(VulnAgent(v)) /\ ~HasCompleted(ExploitAgent(v))
    /\ pipe[u] = "fulfilled" /\ HasCompleted(ExploitAgent(u))

\* C24: there is no barrier between sub-pipelines: while another sub-pipeline's vuln
\* agent is still running, a sub-pipeline whose gate is being asked can start its
\* exploit agent and a running exploit agent can complete.
C24_NoBarrier ==
  \A v, u \in VulnTypes :
    (v # u /\ pipe[u] = "vuln") =>
       /\ pipe[v] = "queue" => ENABLED QueueCheck(v, TRUE)
       /\ pipe[v] = "exploit" => ENABLED ExploitAgentOk(v)

\* C24 witness: one sub-pipeline's exploit agent has completed while another
\* sub-pipeline's vuln agent has not yet finished
C24_Witness ==
  \E v, u \in VulnTypes :
    /\ pipe[u] = "vuln" /\ ~HasCompleted(VulnAgent(u))
    /\ pipe[v] = "fulfilled" /\ HasCompleted(ExploitAgent(v))

(***************************************************************************)
(* Claims about the WorkflowLogger                                         *)
(***************************************************************************)

OnDisk(text) == \E i \in 1..Len(diskFile) : diskFile[i] = text

\* C25: a write is acknowledged (its writeRaw promise resolves) only after its text
\* has been flushed to the log file (stated as written; the code violates it).
C25_AckAfterFlush ==
  \A text \in resolved : OnDisk(text)

Headers(seq) == {i \in 1..Len(seq) : seq[i][1] = "header"}

LoggerAtRest ==
  /\ \A t \in LogCallers : lgCall[t].pc = "idle"
  /\ \A id \in 1..Len(writeStreams) : writeStreams[id].buffered = <<>>

\* C26: after any sequential or overlapping initialize()/logEvent() calls on one
\* logger have returned and the streams have flushed, the file holds the header
\* exactly once and the logger has opened a single write stream (stated as written;
\* the code violates it).
C26_InitializeIdempotent ==
  (logger.initialized /\ LoggerAtRest) =>
     /\ Cardinality(Headers(diskFile)) = 1
     /\ Len(writeStreams) = 1

(***************************************************************************)
(* Claims about the retries of the executor                                *)
(***************************************************************************)

\* C27: a retryable error raised by the runner on attempt k < max_retries is followed
\* by the rollback of attempt k, then one backoff delay taken from that error and k,
\* and only then by the checkpoint of attempt k+1; on the last attempt it is followed
\* by the rollback alone: no delay is taken.
C27_RollbackDelayCheckpoint ==
  \A i \in Idx("raise") :
    events[i].info \in RETRYABLE_PATTERNS =>
      LET k == events[i].attempt
          rest == After(i)
      IN IF k < max_retries
           THEN /\ Len(rest) >= 2
                /\ rest[1] = Ev("rollback", k, "retryable error cleanup")
                /\ rest[2] = Ev("delay", k, events[i].info)
                /\ Len(rest) >= 3 => rest[3] = Ev("checkpoint", k + 1, "")
                /\ CountAt("delay", k) = 1 /\ CountAt("rollback", k) = 1
                /\ Len(rest) = 2 /\ rpc # "delay" => rpc = "checkpoint" /\ attempt = k + 1
           ELSE /\ rest = <<Ev("rollback", k, "final failure cleanup")>>
                /\ CountAt("delay", k) = 0
                /\ rpc = "done" /\ rtOutcome = "raised"

\* C27 witness: "timeout" on attempt 1 of 2 was rolled back and backed off before
\* the checkpoint of attempt 2, whose "rate limit" was rolled back without a delay
C27_Witness ==
  /\ max_retries = 2 /\ rpc = "done"
  /\ \E i \in Idx("raise") : events[i].attempt = 1 /\ events[i].info = "timeout"
  /\ \E i \in Idx("raise") : events[i].attempt = 2 /\ events[i].info = "rate limit"
  /\ Count("delay") = 1 /\ Count("rollback") = 2 /\ Count("checkpoint") = 2

\* attempt k is over
AttemptOver(k) == attempt > k \/ (attempt = k /\ rpc \in {"delay", "done"})

\* C28: with an audit session, every attempt emits exactly one startAgent and, once
\* it is over, exactly one endAgent carrying its number and its success flag,
\* whatever its outcome (stated as written; the code violates it).
C28_OneStartOneEnd ==
  has_audit =>
    \A k \in 1..max_retries :
      /\ CountAt("startAgent", k) <= 1
      /\ CountAt("endAgent", k) <= 1
      /\ AttemptOver(k) =>
           /\ CountAt("startAgent", k) = 1
           /\ CountAt("endAgent", k) = 1
           /\ \A i \in Idx("endAgent") :
                events[i].attempt = k =>
                  (events[i].info = "success" <=> CountAt("valid", k) = 1)

\* C29: a failed validation on attempt k < max_retries is followed by the rollback
\* of attempt k, then one backoff delay, and only then by the checkpoint of attempt
\* k+1 (stated as written; the code violates it).
C29_ValidationRetryBacksOff ==
  \A i \in Idx("invalid") :
    LET k == events[i].attempt
        rest == After(i)
    IN k < max_retries =>
         /\ Len(rest) >= 2 => rest[1].ev = "rollback" /\ rest[2].ev = "delay"
         /\ CountAt("checkpoint", k + 1) = 1 => CountAt("delay", k) = 1

(***************************************************************************)
(* Claims about broadcastProgress                                          *)
(***************************************************************************)

\* subscription sub holds a cached progress whose currentPhase is not that of progress
PhaseChanged(sub, progress) ==
  sub.lastProgress # <<>> /\ sub.lastProgress[1] # progress.currentPhase

\* C30: on a successful poll each subscription of the run is sent one 'progress'
\* message, in subscription order, and the message before it is a 'phase_change'
\* (phase and agent of the new progress) if and only if the subscription has a cached
\* progress with a different currentPhase; afterwards every subscription caches the
\* new progress.
C30_PhaseChange ==
  [][\A w \in Watched, i \in 1..MaxLoops, p \in BroadcastPolls \cup AnsweringPolls :
       (~getProgress(p[1], p[2], p[3]).threw /\ PollQueryOk(w, i, p[2], p[3])) =>
          LET progress == getProgress(p[1], p[2], p[3]).progress
          IN /\ \A c \in Clients :
                  LET mine == SelectSeq(subscriptions[w], LAMBDA sub : sub.ws = c)
                      changes(m) == Cardinality({n \in 1..m : PhaseChanged(mine[n], progress)})
                      msgs == OfType(sent'[c], {"phase_change", "progress"})
                  IN /\ Len(msgs) = Len(mine) + changes(Len(mine))
                     /\ \A m \in 1..Len(mine) :
                          /\ msgs[m + changes(m)] = [type |-> "progress", data |-> progress]
                          /\ PhaseChanged(mine[m], progress) =>
                               msgs[m + changes(m) - 1] =
                                 [type |-> "phase_change", phase |-> progress.currentPhase,
                                  agent |-> progress.currentAgent]
                     /\ msgs = SubSeq(sent'[c], 1, Len(msgs))
             /\ Len(subscriptions'[w]) = Len(subscriptions[w])
             /\ \A k \in 1..Len(subscriptions[w]) :
                  subscriptions'[w][k].lastProgress = <<progress.currentPhase>>]_vars

\* C30 witness: one poll sent a connection whose subscription had cached another phase
\* a 'phase_change' and then the 'progress', and a connection whose subscription had
\* no cache yet the 'progress' alone
C30_Witness ==
  \E c, e \in Clients, w \in Watched :
    /\ Len(sent[c]) >= 2
    /\ sent[c][1].type = "phase_change" /\ sent[c][2].type = "progress"
    /\ sent[c][1].phase = sent[c][2].data.currentPhase
    /\ Len(sent[e]) >= 1 /\ sent[e][1] = sent[c][2]
    /\ \A k \in 1..Len(subscriptions[w]) :
         subscriptions[w][k].lastProgress = <<sent[c][1].phase>>
    /\ SubscribersOf(w) = {c, e} /\ c # e

(***************************************************************************)
(* Claims about the poll loop                                              *)
(***************************************************************************)

\* C31: a poll that fails, or that obtains a non-terminal progress, while the run has
\* a subscription sets exactly one timeout for the next poll of its loop and leaves
\* the subscriptions alone; a pending timeout is dropped only when the run's last
\* subscription goes or a poll obtains a terminal status.
C31_PollingContinues ==
  [][\A w \in Watched, i \in 1..MaxLoops :
       /\ \A conn \in BOOLEAN, q \in QueryOutcomes, d \in DescribeOutcomes :
            (/\ subscriptions[w] # <<>>
             /\ \/ getProgress(conn, q, d).threw
                \/ getProgress(conn, q, d).progress.status \notin {"completed", "failed"}
             /\ \/ PollQueryFail(w, i, conn, q, d)
                \/ conn /\ PollQueryOk(w, i, q, d))
              => /\ loops'[w][i] = "timer"
                 /\ pollIntervals'[w] = <<[loop |-> i, live |-> TRUE]>>
                 /\ \A j \in (1..MaxLoops) \ {i} : loops'[w][j] = loops[w][j]
                 /\ Len(subscriptions'[w]) = Len(subscriptions[w])
       /\ (loops[w][i] = "timer" /\ loops'[w][i] = "none")
              => \/ subscriptions'[w] = <<>>
                 \/ \E j \in (1..MaxLoops) \ {i} :
                      loops[w][j] = "query" /\ loops'[w][j] = "none"]_vars

\* C31 witness: a poll failed, the subscribers were sent the error, and the next poll
\* of the loop is scheduled
C31_Witness ==
  \E w \in Watched, i \in 1..MaxLoops :
    /\ subscriptions[w] # <<>>
    /\ loops[w][i] = "timer"
    /\ pollIntervals[w] = <<[loop |-> i, live |-> TRUE]>>
    /\ \E c \in SubscribersOf(w) : OfType(sent[c], {"error"}) # <<>>

(***************************************************************************)
(* Claims about the fields of the Run record                               *)
(***************************************************************************)

\* C32: currentAgent never names a unit that is already in completedAgents: an
\* ordered phase clears it after its unit completed (stated as written; the code
\* violates it).
C32_CurrentAgentCleared ==
  ~HasCompleted(state.currentAgent)

\* the keys of agentMetrics
MetricKeys == DOMAIN state.agentMetrics

\* C39: in every state the keys of agentMetrics are the names in completedAgents, and
\* a summary counts as many units as it has metrics to total.
C39_MetricsIffCompleted ==
  /\ MetricKeys = {state.completedAgents[i] : i \in 1..Len(state.completedAgents)}
  /\ state.summary # <<>> => state.summary[1].agentCount = Cardinality(MetricKeys)

\* C39 witness: a failed run summarised over the metrics of its three completed
\* units, one of them without a cost
C39_Witness ==
  /\ state.status = "failed"
  /\ state.summary # <<>> /\ state.summary[1].agentCount = 3
  /\ Cardinality(MetricKeys) = 3
  /\ \E k \in MetricKeys : state.agentMetrics[k].costUsd = NoCost
  /\ \E k \in MetricKeys : state.agentMetrics[k].costUsd # NoCost

\* C40: failedAgent is set only in a failed run, and in a failed run it is not a unit
\* listed in completedAgents (stated as written; the code violates it).
C40_FailedAgentNotCompleted ==
  /\ state.failedAgent # null => state.status = "failed"
  /\ state.status = "failed" => ~HasCompleted(state.failedAgent)

(***************************************************************************)
(* Claims about the end of run_claude_prompt_with_retry                    *)
(***************************************************************************)

\* the executor has returned a result or raised
Terminated ==
  /\ rpc = "done"
  /\ rtOutcome \in {"returned", "raised"}
  /\ rtValue # <<>>

\* C33: when every awaited call settles, run_claude_prompt_with_retry terminates: the
\* runner is invoked at most max_retries times, one invocation per checkpoint, and
\* the executor ends by returning a result or by raising.
C33_Terminates ==
  /\ [](/\ Count("checkpoint") <= max_retries
        /\ Cardinality(RunnerOutcomes) <= Count("checkpoint")
        /\ Cardinality(RunnerOutcomes) = Count("checkpoint") - (IF rpc = "run" THEN 1 ELSE 0)
        /\ rpc = "done" => Terminated)
  /\ <>Terminated

\* C33 witness: the budget of three attempts was used up, by a raise, a failed
\* validation and a last raise, and the executor raised
C33_Witness ==
  /\ Terminated /\ rtOutcome = "raised"
  /\ max_retries = MaxRetries
  /\ Cardinality(RunnerOutcomes) = max_retries
  /\ Count("invalid") >= 1 /\ Count("raise") >= 2

\* C34: every checkpoint is followed by exactly one commit or one rollback of its
\* attempt before the next checkpoint or the end of the executor, whatever the runner
\* did (a result with success = false included), and the value raised is an actual
\* error (stated as written; the code violates it).
C34_CheckpointAccounting ==
  /\ \A k \in 1..max_retries :
       /\ CountAt("commit", k) + CountAt("rollback", k) <= CountAt("checkpoint", k)
       /\ (attempt > k \/ (attempt = k /\ rpc = "done")) =>
            CountAt("commit", k) + CountAt("rollback", k) = 1
  /\ rtOutcome = "raised" => rtValue # <<undefined>>

(***************************************************************************)
(* Claims about the subscriptions of a run                                 *)
(***************************************************************************)

\* the terminal messages of run w among msgs
TerminalMsgs(msgs, w) ==
  SelectSeq(msgs, LAMBDA m : m.type \in {"complete", "failed"} /\ m.workflowId = w)

\* the subscription caches a terminal progress: it was sent that progress by a
\* terminal poll, which sent the terminal message after it (of the progress values of
\* BroadcastPolls only the terminal one has its currentPhase)
SawTerminal(sub) ==
  \E p \in BroadcastPolls :
    /\ p[2].progress.status \in {"completed", "failed"}
    /\ sub.lastProgress = <<p[2].progress.currentPhase>>

\* C35: a connection whose one subscription to a run was already sent the terminal
\* message is not sent a terminal message of that run again, whoever subscribes
\* afterwards (stated as written; the code violates it).
C35_OneTerminalMessage ==
  [][\A w \in Watched, c \in Clients :
       LET mine == SelectSeq(subscriptions[w], LAMBDA sub : sub.ws = c)
       IN (Len(mine) = 1 /\ SawTerminal(mine[1])) => TerminalMsgs(sent'[c], w) = <<>>]_vars

(***************************************************************************)
(* Claims about the snapshot of a run that ended                           *)
(***************************************************************************)

\* C37: when describe() reports the status the query reports, the poll sends the
\* query's snapshot unchanged, and the terminal message carries the query's error:
\* null for a run that completed (stated as written; the code violates it).
C37_AgreementAddsNoNote ==
  [][\A w \in Watched, i \in 1..MaxLoops, p \in QueryProgress,
        name \in {"RUNNING", "COMPLETED", "FAILED"} :
       (/\ toLowerCase(name) = p.status
        /\ PollQueryOk(w, i, [ok |-> TRUE, progress |-> p], [ok |-> TRUE, name |-> name]))
         => \A c \in SubscribersOf(w) :
              /\ OfType(sent'[c], {"progress"}) # <<>>
              /\ \A n \in 1..Len(sent'[c]) :
                   /\ sent'[c][n].type = "progress" => sent'[c][n].data = p
                   /\ sent'[c][n].type \in {"complete", "failed"} =>
                        sent'[c][n].error = p.error]_vars

\* the ClientSubscription objects of run w that belong to connection c
SubscriptionsOf(c, w) == SelectSeq(subscriptions[w], LAMBDA sub : sub.ws = c)

\* C36: a connection has at most one subscription to a run, and once it unsubscribed
\* from the run it has none, so that no later poll of the run sends it anything
\* (stated as written; the code violates it).
C36_OneSubscriptionPerPair ==
  [][\A w \in Watched, c \in Clients :
       /\ Subscribe(c, w) => Len(SubscriptionsOf(c, w))' = 1
       /\ Unsubscribe(c, w) => SubscriptionsOf(c, w)' = <<>>]_vars

(***************************************************************************)
(* Claims about the lines of the log                                       *)
(***************************************************************************)

\* the offsets of line are those of one whole line of file: it starts the file or
\* follows a newline, runs on without a gap, and its newline follows it
WholeLine(file, line) ==
  /\ line[1] = 1 \/ file[line[1] - 1] = "\n"
  /\ \A n \in 1..(Len(line) - 1) : line[n + 1] = line[n] + 1
  /\ line[Len(line)] < Len(file) /\ file[line[Len(line)] + 1] = "\n"

\* the offsets of the text of the lines of file whose newline lies before offset upto
CompleteBefore(file, upto) ==
  {j \in 1..Len(file) : /\ file[j] # "\n"
                        /\ \E n \in (j + 1)..upto : n <= Len(file) /\ file[n] = "\n"}

\* C38: the lines a read stream sends a subscription are whole lines of the file that
\* the subscription was not sent before, and when the stream ends and logPosition moves
\* on, every complete line before the new logPosition has been sent to the
\* subscription: none was dropped (stated as written; the code violates it).
C38_LinesOnceAndWhole ==
  [][\A k \in 1..MaxStreams :
       /\ (k <= Len(streams) /\ streams[k].ws \in connected /\ StreamData(k)) =>
            LET s == streams[k]
                lines == NextChunk(s).lines
            IN /\ OffsetsOf(lines) \cap tailed[s.run][s.sub] = {}
               /\ \A n \in 1..Len(lines) : WholeLine(logFile[s.run], lines[n])
       /\ (k <= Len(streams) /\ streams[k].ws \in connected /\ StreamEnd(k)) =>
            LET s == streams[k]
            IN CompleteBefore(logFile[s.run], s.size) \subseteq tailed[s.run][s.sub]]_vars

====
